---- MODULE Spec2Model ----
(***************************************************************************)
(* Mp4Opus: mp4opusenc (LPCM -> Opus in MP4) and mp4opusdec (Opus in MP4   *)
(* -> LPCM in QuickTime).  One behaviour is one run of one program, from   *)
(* the entry of main() to its return.  The container library (L-SMASH) and *)
(* the codec library (libopus) are external: each call into them succeeds  *)
(* or fails by a nondeterministic choice.                                  *)
(***************************************************************************)
EXTENDS Integers, Sequences, FiniteSets, TLC

(***************************************************************************)
(* Program constants.                                                      *)
(***************************************************************************)
MediaRate == 48000
MAX_OPUS_PACKET_DURATION == 5760
STATUS_RECOVERY_REQUIRED == 0
STATUS_RECOVERY_STARTED == 1
PreRollMs == 80
ISOM_EDIT_MODE_NORMAL == 65536
NULL == "NULL"

(***************************************************************************)
(* Bounds of the model.                                                    *)
(***************************************************************************)
MaxPackets == 3
MaxEdits == 2
MaxScanPackets == 10
MaxChunks == 3
MaxLookahead == 2

(***************************************************************************)
(* Arithmetic of the C expressions.                                        *)
(***************************************************************************)
Max(a, b) == IF a > b THEN a ELSE b

Range(s) == {s[i] : i \in DOMAIN s}

\* The second operand whatever the first is.
MP4OPUSENC_MIN_Second(a, b) == b

MP4OPUSENC_MIN(a, b) == IF a < b THEN a ELSE b

\* Conversion of the real number a / b (b > 0) to an integer type: C truncates
\* toward zero.
TruncQ(a, b) == IF a >= 0 THEN a \div b ELSE -((-a) \div b)

RECURSIVE OddPart(_)
OddPart(x) == IF x > 0 /\ x % 2 = 0 THEN OddPart(x \div 2) ELSE x

\* The double a / b is the exact quotient only when the quotient is a binary
\* fraction, that is when the odd part of b divides a; otherwise it is rounded.
DivInexact(a, b) == a % OddPart(b) # 0

\* (int)(((double)a / b) * c) for a, c >= 0, b > 0.  When a / b was rounded and
\* the real product a*c/b is an integer k, the computed double is k or a
\* neighbour of k, so the conversion gives k or k - 1 (slack \in {0, 1}: which
\* one depends on the operands and on the build's floating-point options,
\* -ffast-math and -fexcess-precision=fast in ./configure).  In every other
\* case the real product is at least 1/b away from an integer and the
\* conversion is floor(a*c/b).
ScaleTrunc(a, b, c, slack) ==
    LET k == (a * c) \div b
    IN  IF (a * c) % b = 0 /\ DivInexact(a, b) /\ k > 0 THEN k - slack ELSE k

Slack == {0, 1}

RECURSIVE SumSeq(_)
SumSeq(s) == IF s = << >> THEN 0 ELSE Head(s) + SumSeq(Tail(s))

RECURSIVE SeqsUpTo(_, _)
SeqsUpTo(S, n) ==
    IF n = 0 THEN {<< >>}
    ELSE LET shorter == SeqsUpTo(S, n - 1)
         IN  shorter \cup {Append(s, x) : s \in {t \in shorter : Len(t) = n - 1}, x \in S}

(***************************************************************************)
(* State.                                                                  *)
(***************************************************************************)
VARIABLES
    prog,            \* "enc" (mp4opusenc) or "dec" (mp4opusdec)
    pc,              \* <<where, what>>: <<"call", stage>> main() is about to call the
                     \* stage, <<"main", stage>> the stage has returned ret to main(),
                     \* <<"do_decode", place>> and <<"do_encode", place>> inside the
                     \* loops, <<"returned", "main">> main() has returned
    exit_code,       \* main()'s return value, once pc is <<"returned", "main">>
    ret,             \* the return value of the last call (do_decode's ret inside it)
    in_root,         \* input.root: NULL or "live"
    out_root,        \* output.root: NULL or "live"
    buffer_alloc,    \* the sample buffer: NULL, "live" or "freed"
    codec,           \* opus.msenc / opus.msdec: NULL, "live" or "destroyed"
    cleanups,        \* calls of cleanup_mp4opusenc / cleanup_mp4opusdec
    codec_creates,   \* successful opus_multistream_{en,de}coder_create calls
    codec_destroys,  \* opus_multistream_{en,de}coder_destroy calls on a handle
    codec_misuse,    \* a codec call was made on a destroyed handle
    held,            \* input samples got from the media timeline and not deleted yet
    (* the input file of mp4opusdec *)
    timescale,       \* input.file.movie.param.timescale
    timeline,        \* the media timeline: each packet's frame size in samples
    pre_roll,        \* sample.prop.pre_roll.distance of the packets
    edit_count,      \* lsmash_count_explicit_timeline_map
    edits,           \* the entries the edit list is made of: each
                     \* lsmash_get_explicit_timeline_map returns one of them
    channels,        \* summary->channels
    (* do_decode *)
    edit_number,
    presentation,
    packet_number,
    packet,          \* packet.sample: 0 (NULL) or the index of the sample it owns
    timestamp,       \* out_media->timestamp
    buffer_offset,   \* out_media->buffer_offset
    out_edits,       \* the number of edits written to the output
    out_edit,        \* the edit written last
    emitted,         \* samples appended to the output in the current edit
    found,           \* where the scan of the current edit ended: <<index, cts>>
    decoded,         \* packet indexes handed to the decoder in the current edit
    samples,         \* num_samples of do_decode: the size of the frame decoded last
    (* the codec configuration of both programs *)
    param,           \* the lsmash_opus_specific_parameters_t: written by mp4opusenc,
                     \* read from the input file by mp4opusdec
    layout,          \* the lsmash_qt_audio_channel_layout_t: read from the input
                     \* file by mp4opusenc, written by mp4opusdec
    channel_mapping, \* the uint8_t[8] handed to opus_multistream_*_create
    (* the input file and the options of mp4opusenc *)
    frequency,       \* summary->frequency
    argv_framesize,  \* the argument of --framesize in units of 0.5 ms: << >> or <<x>>
    opt_frame_size,  \* opus.opt.frame_size, in units of 0.5 ms
    lookahead,       \* what OPUS_GET_LOOKAHEAD reports for the encoder
    (* prepare_output of mp4opusenc *)
    frame_size,      \* opus.frame_size
    buffer_size,     \* in_media->buffer_size
    priming_samples, \* out_media->priming_samples
    preroll_distance,\* out_media->preroll_distance
    sample_duration, \* out_media->sample_duration
    out_cs,          \* the Opus specific info added to the output summary
    (* do_encode *)
    buffer,          \* the bytes of in_media->buffer, as runs <<byte, length>>
    buffer_pos,      \* in_media->buffer_pos
    num_samples,     \* in_media->num_samples
    eof,
    frames,          \* the buffers handed to opus_multistream_encode, in order
    appended,        \* the samples appended to the output, in order: their dts
                     \* (mp4opusenc), their dts and length in PCM samples (mp4opusdec)
    pushed           \* buffer_pos and the frames encoded when feed_packet_to_encoder was entered

ctlVars == <<prog, pc, exit_code, ret>>

resVars == <<in_root, out_root, buffer_alloc, codec, cleanups, codec_creates,
             codec_destroys, codec_misuse, held>>

decInVars == <<timescale, timeline, pre_roll, edit_count, edits, channels>>

decLoopVars == <<edit_number, presentation, packet_number, packet, timestamp,
                 buffer_offset, out_edits, out_edit, emitted, found, decoded, samples>>

decVars == <<decInVars, decLoopVars>>

cfgVars == <<param, layout, channel_mapping>>

encInVars == <<frequency, argv_framesize, opt_frame_size, lookahead>>

encPrepVars == <<frame_size, buffer_size, priming_samples, preroll_distance,
                 sample_duration, out_cs>>

encLoopVars == <<buffer, buffer_pos, num_samples, eof, frames, appended, pushed>>

encVars == <<encInVars, encPrepVars, encLoopVars>>

vars == <<ctlVars, resVars, decVars, cfgVars, encVars>>

(***************************************************************************)
(* Channel layouts and the remap tables.                                   *)
(***************************************************************************)
\* A uint8_t[8] initialised from a shorter list: the rest is zero.
Pad8(s) == s \o [i \in 1..(8 - Len(s)) |-> 0]

\* Channel layout tags as <<upper 16 bits, lower 16 bits>>.
QT_CHANNEL_LAYOUT_USE_CHANNEL_BITMAP == <<1, 0>>
QT_CHANNEL_LAYOUT_MONO == <<100, 1>>
QT_CHANNEL_LAYOUT_STEREO == <<101, 2>>
QT_CHANNEL_LAYOUT_QUADRAPHONIC == <<108, 4>>
QT_CHANNEL_LAYOUT_MPEG_3_0_A == <<113, 3>>
QT_CHANNEL_LAYOUT_MPEG_5_0_A == <<117, 5>>
QT_CHANNEL_LAYOUT_MPEG_5_1_A == <<121, 6>>
QT_CHANNEL_LAYOUT_MPEG_7_1_A == <<126, 8>>
QT_CHANNEL_LAYOUT_UNKNOWN == <<65535, 0>>

\* tag | n for a tag whose lower 16 bits are zero and n < 2^16.
TagOr(tag, n) == <<tag[1], n>>

\* (tag & QT_CHANNEL_LAYOUT_UNKNOWN) != QT_CHANNEL_LAYOUT_UNKNOWN
TagIsKnown(tag) == tag[1] # QT_CHANNEL_LAYOUT_UNKNOWN[1]

\* Channel bitmaps as the sets of their QT_CHANNEL_BIT_* bits.
FrontLR == {"LEFT", "RIGHT"}
BackLR == {"LEFT_SURROUND", "RIGHT_SURROUND"}
SideLR == {"LEFT_SURROUND_DIRECT", "RIGHT_SURROUND_DIRECT"}

\* mp4opusenc: SMPTE/USB channel order -> encoder channel order -> Vorbis
\* channel order.
enc_channel_remap_table ==
    << [tag |-> QT_CHANNEL_LAYOUT_MONO,
        bitmap |-> {"CENTER"},
        encoder |-> Pad8(<<0>>),
        vorbis |-> Pad8(<<0>>)],
       [tag |-> QT_CHANNEL_LAYOUT_STEREO,
        bitmap |-> FrontLR,
        encoder |-> Pad8(<<0, 1>>),
        vorbis |-> Pad8(<<0, 1>>)],
       [tag |-> QT_CHANNEL_LAYOUT_MPEG_3_0_A,
        bitmap |-> FrontLR \cup {"CENTER"},
        encoder |-> Pad8(<<0, 1, 2>>),
        vorbis |-> Pad8(<<0, 2, 1>>)],
       [tag |-> QT_CHANNEL_LAYOUT_QUADRAPHONIC,
        bitmap |-> FrontLR \cup BackLR,
        encoder |-> Pad8(<<0, 1, 2, 3>>),
        vorbis |-> Pad8(<<0, 1, 2, 3>>)],
       [tag |-> QT_CHANNEL_LAYOUT_MPEG_5_0_A,
        bitmap |-> FrontLR \cup {"CENTER"} \cup BackLR,
        encoder |-> Pad8(<<0, 1, 3, 4, 2>>),
        vorbis |-> Pad8(<<0, 4, 1, 2, 3>>)],
       [tag |-> QT_CHANNEL_LAYOUT_MPEG_5_1_A,
        bitmap |-> FrontLR \cup {"CENTER", "LFE_SCREEN"} \cup BackLR,
        encoder |-> Pad8(<<0, 1, 4, 5, 2, 3>>),
        vorbis |-> Pad8(<<0, 4, 1, 2, 3, 5>>)],
       [tag |-> TagOr(QT_CHANNEL_LAYOUT_UNKNOWN, 7),
        bitmap |-> FrontLR \cup {"CENTER", "LFE_SCREEN", "CENTER_SURROUND"} \cup SideLR,
        encoder |-> Pad8(<<0, 1, 5, 6, 2, 4, 3>>),
        vorbis |-> Pad8(<<0, 4, 1, 2, 3, 5, 6>>)],
       [tag |-> TagOr(QT_CHANNEL_LAYOUT_UNKNOWN, 8),
        bitmap |-> FrontLR \cup {"CENTER", "LFE_SCREEN"} \cup BackLR \cup SideLR,
        encoder |-> Pad8(<<0, 1, 6, 7, 4, 5, 2, 3>>),
        vorbis |-> Pad8(<<0, 6, 1, 2, 3, 4, 5, 7>>)] >>

\* dec_channel_remap_table with the centre of the 3-channel entry mistyped.
dec_channel_remap_table_Slip ==
    << [bitmap |-> {"CENTER"},
        vorbis |-> Pad8(<<0>>)],
       [bitmap |-> FrontLR,
        vorbis |-> Pad8(<<0, 1>>)],
       [bitmap |-> FrontLR \cup {"CENTER"},
        vorbis |-> Pad8(<<0, 2, 2>>)],
       [bitmap |-> FrontLR \cup BackLR,
        vorbis |-> Pad8(<<0, 1, 2, 3>>)],
       [bitmap |-> FrontLR \cup {"CENTER"} \cup BackLR,
        vorbis |-> Pad8(<<0, 2, 1, 3, 4>>)],
       [bitmap |-> FrontLR \cup {"CENTER", "LFE_SCREEN"} \cup BackLR,
        vorbis |-> Pad8(<<0, 2, 1, 5, 3, 4>>)],
       [bitmap |-> FrontLR \cup {"CENTER", "LFE_SCREEN", "CENTER_SURROUND"} \cup SideLR,
        vorbis |-> Pad8(<<0, 2, 1, 6, 5, 3, 4>>)],
       [bitmap |-> FrontLR \cup {"CENTER", "LFE_SCREEN"} \cup BackLR \cup SideLR,
        vorbis |-> Pad8(<<0, 2, 1, 7, 5, 6, 3, 4>>)] >>

\* mp4opusdec: Vorbis channel order -> SMPTE/USB channel order.
dec_channel_remap_table ==
    << [bitmap |-> {"CENTER"},
        vorbis |-> Pad8(<<0>>)],
       [bitmap |-> FrontLR,
        vorbis |-> Pad8(<<0, 1>>)],
       [bitmap |-> FrontLR \cup {"CENTER"},
        vorbis |-> Pad8(<<0, 2, 1>>)],
       [bitmap |-> FrontLR \cup BackLR,
        vorbis |-> Pad8(<<0, 1, 2, 3>>)],
       [bitmap |-> FrontLR \cup {"CENTER"} \cup BackLR,
        vorbis |-> Pad8(<<0, 2, 1, 3, 4>>)],
       [bitmap |-> FrontLR \cup {"CENTER", "LFE_SCREEN"} \cup BackLR,
        vorbis |-> Pad8(<<0, 2, 1, 5, 3, 4>>)],
       [bitmap |-> FrontLR \cup {"CENTER", "LFE_SCREEN", "CENTER_SURROUND"} \cup SideLR,
        vorbis |-> Pad8(<<0, 2, 1, 6, 5, 3, 4>>)],
       [bitmap |-> FrontLR \cup {"CENTER", "LFE_SCREEN"} \cup BackLR \cup SideLR,
        vorbis |-> Pad8(<<0, 2, 1, 7, 5, 6, 3, 4>>)] >>

(***************************************************************************)
(* Teardown and the exits of main().                                       *)
(***************************************************************************)
\* cleanup_mp4opusdec: cleanup_input_movie, cleanup_output_movie (which frees
\* the sample buffer) and opus_multistream_decoder_destroy( dec->opus.msdec ).
\* Both roots are reset to NULL; the decoder pointer is not.
cleanup_mp4opusdec ==
    /\ cleanups' = cleanups + 1
    /\ in_root' = NULL
    /\ out_root' = NULL
    /\ buffer_alloc' = IF buffer_alloc = "live" THEN "freed" ELSE buffer_alloc
    /\ codec' = IF codec = NULL THEN NULL ELSE "destroyed"
    /\ codec_destroys' = codec_destroys + (IF codec = NULL THEN 0 ELSE 1)
    /\ codec_misuse' = (codec_misuse \/ codec = "destroyed")
    /\ UNCHANGED <<codec_creates, held>>

\* A stage of main() returns r: main() examines it in its next step.
Return(stage, r) ==
    /\ pc' = <<"main", stage>>
    /\ ret' = r

(***************************************************************************)
(* mp4opusdec: main().                                                     *)
(***************************************************************************)
\* if( stage( &dec ) < 0 ) return MP4OPUSDEC_ERR( ... ): mp4opusdec_error
\* cleans up and returns -1.
DecMainError ==
    /\ prog = "dec"
    /\ pc \in {<<"main", "parse_options">>, <<"main", "prepare_output">>,
               <<"main", "do_decode">>, <<"main", "finish_movie">>}
    /\ ret < 0
    /\ cleanup_mp4opusdec
    /\ exit_code' = -1
    /\ pc' = <<"returned", "main">>
    /\ UNCHANGED <<cfgVars, encVars, prog, ret, decVars>>

\* if( open_input_file( &dec ) < 0 ) return MP4OPUSDEC_USAGE_ERR(): display_help
\* and return -1.
DecMainUsageError ==
    /\ prog = "dec"
    /\ pc = <<"main", "open_input_file">>
    /\ ret < 0
    /\ exit_code' = -1
    /\ pc' = <<"returned", "main">>
    /\ UNCHANGED <<cfgVars, encVars, prog, ret, resVars, decVars>>

\* if( dec.opt.help ) { display_help(); return 0; }
DecMainHelp ==
    /\ prog = "dec"
    /\ pc = <<"main", "parse_options">>
    /\ ret = 1
    /\ exit_code' = 0
    /\ pc' = <<"returned", "main">>
    /\ UNCHANGED <<cfgVars, encVars, prog, ret, resVars, decVars>>

DecStageAfter(stage) ==
    CASE stage = "parse_options" -> "open_input_file"
      [] stage = "open_input_file" -> "prepare_output"
      [] stage = "prepare_output" -> "do_decode"
      [] stage = "do_decode" -> "finish_movie"

DecMainNext ==
    /\ prog = "dec"
    /\ pc \in {<<"main", "parse_options">>, <<"main", "open_input_file">>,
               <<"main", "prepare_output">>, <<"main", "do_decode">>}
    /\ ret = 0
    /\ pc' = <<"call", DecStageAfter(pc[2])>>
    /\ UNCHANGED <<cfgVars, encVars, prog, exit_code, ret, resVars, decVars>>

\* Decoding completed: cleanup_mp4opusdec( &dec ); return 0.
DecMainDone ==
    /\ prog = "dec"
    /\ pc = <<"main", "finish_movie">>
    /\ ret = 0
    /\ cleanup_mp4opusdec
    /\ exit_code' = 0
    /\ pc' = <<"returned", "main">>
    /\ UNCHANGED <<cfgVars, encVars, prog, ret, decVars>>

\* parse_options: -1 for a bad command line, 0 with opt.help set (modelled as
\* the value 1 of ret), 0 with the file names.
DecParseOptions ==
    /\ prog = "dec" /\ pc = <<"call", "parse_options">>
    /\ \E r \in {-1, 0, 1} : Return("parse_options", r)
    /\ UNCHANGED <<cfgVars, encVars, prog, exit_code, resVars, decVars>>

\* open_input_file: lsmash_create_root can fail, leaving no root; every later
\* failure leaves the root (and what hangs on it) behind.
DecOpenInputFile ==
    /\ prog = "dec" /\ pc = <<"call", "open_input_file">>
    /\ \E r \in {<<NULL, -1>>, <<"live", -1>>, <<"live", 0>>} :
          /\ in_root' = r[1]
          /\ Return("open_input_file", r[2])
    /\ UNCHANGED <<cfgVars, encVars, prog, exit_code, out_root, buffer_alloc, codec, cleanups,
                   codec_creates, codec_destroys, codec_misuse, held, decVars>>

\* setup_decoder: opus_multistream_decoder_create fails (no handle is stored),
\* or the handle is stored and OPUS_SET_GAIN fails, or both succeed.
\* <<opus->msdec, return value>>
setup_decoder == { <<NULL, -1>>, <<"live", -1>>, <<"live", 0>> }

\* remap_channel_layout( param, layout, channel_mapping ) of mp4opusdec: the
\* layout written to the output and the mapping in SMPTE/USB channel order.
dec_remap_channel_layout(prm, cm) ==
    LET count == prm.OutputChannelCount
        opus_channel_mapping == IF prm.ChannelMappingFamily # 0
                                THEN prm.ChannelMapping
                                ELSE Pad8(<<0, 1>>)
    IN  IF count \in 1..8
        THEN [layout |-> [present |-> TRUE,
                          tag |-> QT_CHANNEL_LAYOUT_USE_CHANNEL_BITMAP,
                          bitmap |-> dec_channel_remap_table[count].bitmap],
              channel_mapping |->
                  [defined |-> TRUE,
                   bytes |-> [i \in 1..8 |->
                                IF i <= count
                                THEN opus_channel_mapping[dec_channel_remap_table[count].vorbis[i] + 1]
                                ELSE cm.bytes[i]]]]
        ELSE [layout |-> [present |-> TRUE,
                          tag |-> TagOr(QT_CHANNEL_LAYOUT_UNKNOWN, count),
                          bitmap |-> {}],
              channel_mapping |-> cm]

\* prepare_output: what exists when it returns, in source order:
\* <<output root, sample buffer, decoder, return value, setup_decoder called>>.
DecPrepareOutcomes ==
    { <<NULL, NULL, NULL, -1, FALSE>>,          \* lsmash_create_root
      <<"live", NULL, NULL, -1, FALSE>>,        \* open file .. summary, buffer allocation
      <<"live", "live", NULL, -1, FALSE>> }     \* LPCM specific info, channel layout info
    \cup { <<"live", "live", d[1], d[2], TRUE>> : d \in setup_decoder }
    \cup { <<"live", "live", "live", -1, TRUE>> } \* add layout info, add sample entry

DecPrepareOutput ==
    /\ prog = "dec" /\ pc = <<"call", "prepare_output">>
    /\ \E o \in DecPrepareOutcomes :
          LET rm == dec_remap_channel_layout(param, [defined |-> TRUE, bytes |-> Pad8(<<0>>)])
          IN  /\ out_root' = o[1]
              /\ buffer_alloc' = o[2]
              /\ codec' = o[3]
              /\ codec_creates' = codec_creates + (IF o[3] = "live" THEN 1 ELSE 0)
              /\ layout' = IF o[5] THEN rm.layout ELSE layout
              /\ channel_mapping' = IF o[5] THEN rm.channel_mapping ELSE channel_mapping
              /\ Return("prepare_output", o[4])
    /\ UNCHANGED <<param, encVars, prog, exit_code, in_root, cleanups, codec_destroys,
                   codec_misuse, held, decVars>>

DecFinishMovie ==
    /\ prog = "dec" /\ pc = <<"call", "finish_movie">>
    /\ \E r \in {-1, 0} : Return("finish_movie", r)
    /\ UNCHANGED <<cfgVars, encVars, prog, exit_code, resVars, decVars>>

(***************************************************************************)
(* mp4opusdec: the media timeline and the edit window.                     *)
(***************************************************************************)
\* lsmash_check_sample_existence_in_media_timeline
SampleExists(n) == n \in 1..Len(timeline)

\* The composition timestamp of packet n on the 48 kHz media clock.
Cts(n) == SumSeq(SubSeq(timeline, 1, n - 1))

\* lsmash_get_media_duration_from_media_timeline
MediaDuration == SumSeq(timeline)

\* RewindTo without the step back to the previous packet.
RewindTo_NoPrev(pn, cts, start_time, pre_roll_distance) ==
    IF pn <= pre_roll_distance THEN 1 ELSE pn - pre_roll_distance

\* The packet index at which decoding resumes once the scan has found packet
\* number pn, with timestamp cts, not before start_time.
RewindTo(pn, cts, start_time, pre_roll_distance) ==
    LET start_from_prev_sample == IF cts > start_time THEN 1 ELSE 0
    IN  IF pn <= pre_roll_distance + start_from_prev_sample
        THEN 1
        ELSE pn - (pre_roll_distance + start_from_prev_sample)

\* apply_edit without the trimming at the start of the edit.
PreSkipped_None(cts, decoded_samples, start_time) == 0

\* apply_edit: the samples to drop from the head of the frame.
PreSkipped(cts, decoded_samples, start_time) ==
    IF cts < start_time
    THEN IF cts + decoded_samples <= start_time THEN decoded_samples ELSE start_time - cts
    ELSE 0

\* apply_edit: presentation->timestamp += ((double)decoded_samples / 48000) * timescale,
\* the sum converted back to uint64_t.
AdvanceTimestamp(ts, decoded_samples, tscale, slack) ==
    ts + ScaleTrunc(decoded_samples, MediaRate, tscale, slack)

\* apply_edit adding the samples past the end of the edit instead of removing
\* them.
TrimTail_Added(decoded_samples, over, tscale, slack) ==
    decoded_samples + (over * MediaRate) \div tscale

\* apply_edit: decoded_samples -= ((double)(timestamp - duration) / timescale) * 48000
\* for timestamp > duration, the difference converted back to int.
TrimTail(decoded_samples, over, tscale, slack) ==
    LET x48 == over * MediaRate     \* the subtrahend is x48 / tscale
    IN  IF x48 % tscale = 0 /\ DivInexact(over, tscale) /\ decoded_samples - x48 \div tscale >= 1
        THEN decoded_samples - x48 \div tscale - slack
        ELSE TruncQ(decoded_samples * tscale - x48, tscale)

\* apply_edit( out_media, packet, presentation, decoded_samples ): the value returned,
\* out_media->buffer_offset and presentation->timestamp afterwards.
apply_edit(cts, decoded_samples, p, offset, s1, s2) ==
    IF decoded_samples <= 0
    THEN [num_samples |-> decoded_samples, buffer_offset |-> offset, timestamp |-> p.timestamp]
    ELSE LET pre_skipped_samples == PreSkipped(cts, decoded_samples, p.start_time)
             kept == decoded_samples - pre_skipped_samples
             ts == AdvanceTimestamp(p.timestamp, kept, p.timescale, s1)
         IN  [num_samples |-> IF ts > p.duration
                              THEN TrimTail(kept, ts - p.duration, p.timescale, s2)
                              ELSE kept,
              buffer_offset |-> pre_skipped_samples * channels * 2,
              timestamp |-> ts]

(***************************************************************************)
(* mp4opusdec: do_decode.                                                  *)
(***************************************************************************)
\* The scan stepping back and forth instead of forward.
ScanNext_Back(pn) == IF pn > 1 THEN pn - 1 ELSE pn + 1

\* *packet_number += 1 of get_input_packet.
ScanNext(pn) == pn + 1

\* do_decode without the pass-through of empty edits.
IsEmptyEdit_Never(edit) == FALSE

\* if( edit.start_time == -1 ) of do_decode.
IsEmptyEdit(edit) == edit.start_time = -1

\* The test of the packet loop without ret != 1.
PacketLoopRuns_IgnoreEof(r, p) == p.timestamp < p.duration

\* get_input_packet without the test of presentation->status.
RecoveryRequired_Never(p) == FALSE

\* if( presentation->status == STATUS_RECOVERY_REQUIRED ) of get_input_packet.
RecoveryRequired(p) == p.status = STATUS_RECOVERY_REQUIRED

\* do_decode without the test of what get_input_packet returned.
FetchFailed_Ignored(r) == FALSE

\* if( ret < 0 ) return ret; after get_input_packet in do_decode.
FetchFailed(r) == r < 0

\* The test of the packet loop: ret != 1 && timestamp < duration.
PacketLoopRuns(r, p) == r # 1 /\ p.timestamp < p.duration

\* for( ...; packet_number++ ) without the increment.
NextPacketNumber_Same(pn) == pn

\* for( ...; packet_number++ ) of the packet loop.
NextPacketNumber(pn) == pn + 1

\* The packet loop has ended: the edit loop goes on with the next edit.
NextEdit ==
    /\ edit_number' = edit_number + 1
    /\ pc' = <<"do_decode", "edit_loop">>

\* do_decode returns r: its locals (the edit, the presentation, the packet and
\* its number) end with it, and so does what is recorded about the edit.
DecodeReturns(r) ==
    /\ Return("do_decode", r)
    /\ edit_number' = 0
    /\ presentation' = [status |-> STATUS_RECOVERY_REQUIRED, timescale |-> timescale,
                        timestamp |-> 0, duration |-> 0, start_time |-> 0, rate |-> 0]
    /\ packet_number' = 0
    /\ emitted' = 0
    /\ found' = <<0, 0>>
    /\ decoded' = << >>
    /\ samples' = 0

DecDoDecode ==
    /\ prog = "dec" /\ pc = <<"call", "do_decode">>
    /\ edit_number' = 1
    /\ pc' = <<"do_decode", "edit_loop">>
    /\ UNCHANGED <<cfgVars, encVars, prog, exit_code, ret, resVars, decInVars, presentation,
                   packet_number, packet, timestamp, buffer_offset, out_edits, out_edit,
                   emitted, found, decoded, samples>>

\* lsmash_get_explicit_timeline_map or lsmash_create_explicit_timeline_map fails.
DecEditFail ==
    /\ prog = "dec" /\ pc = <<"do_decode", "edit_loop">>
    /\ edit_number <= edit_count
    /\ DecodeReturns(-1)
    /\ UNCHANGED <<cfgVars, encVars, prog, exit_code, resVars, decInVars, packet, timestamp,
                   buffer_offset, out_edits, out_edit>>

\* An empty edit (start_time == -1) is written to the output as it is.
DecEmptyEdit ==
    /\ prog = "dec" /\ pc = <<"do_decode", "edit_loop">>
    /\ edit_number <= edit_count
    /\ \E edit \in edits :
          /\ IsEmptyEdit(edit)
          /\ out_edit' = edit
    /\ out_edits' = out_edits + 1
    /\ edit_number' = edit_number + 1
    /\ ret' = 0
    /\ UNCHANGED <<cfgVars, encVars, prog, pc, exit_code, resVars, decInVars, presentation,
                   packet_number, packet, timestamp, buffer_offset, emitted, found,
                   decoded, samples>>

\* A normal edit: the presentation is set up, the output edit written with
\* start_time 0, and the packet loop entered at packet 1.
DecBeginEdit ==
    /\ prog = "dec" /\ pc = <<"do_decode", "edit_loop">>
    /\ edit_number <= edit_count
    /\ \E edit \in edits, slack \in Slack :
          LET duration == IF edit.duration = 0
                          THEN ScaleTrunc(MediaDuration, MediaRate, timescale, slack)
                          ELSE edit.duration
              p == [status |-> STATUS_RECOVERY_REQUIRED,
                    timescale |-> timescale,
                    timestamp |-> 0,
                    duration |-> duration,
                    start_time |-> edit.start_time,
                    rate |-> edit.rate]
          IN  /\ ~IsEmptyEdit(edit)
              /\ presentation' = p
              /\ out_edit' = [start_time |-> 0, duration |-> duration, rate |-> edit.rate]
              /\ out_edits' = out_edits + 1
              /\ IF PacketLoopRuns(0, p)
                 THEN /\ pc' = <<"do_decode", "get_input_packet">>
                      /\ UNCHANGED edit_number
                 ELSE NextEdit
    /\ ret' = 0
    /\ packet_number' = 1
    /\ packet' = 0
    /\ emitted' = 0
    /\ found' = <<0, 0>>
    /\ decoded' = << >>
    /\ samples' = 0
    /\ UNCHANGED <<cfgVars, encVars, prog, exit_code, resVars, decInVars, timestamp, buffer_offset>>

\* get_input_packet: no sample at packet_number, return 1.  Nothing is decoded,
\* the (empty) packet is freed and the packet loop ends.
DecEndOfTrack ==
    /\ prog = "dec" /\ pc = <<"do_decode", "get_input_packet">>
    /\ ~SampleExists(packet_number)
    /\ ret' = 1
    /\ packet_number' = NextPacketNumber(packet_number)
    /\ IF PacketLoopRuns(1, presentation)
       THEN UNCHANGED <<pc, edit_number>>
       ELSE NextEdit
    /\ UNCHANGED <<cfgVars, encVars, prog, exit_code, resVars, decInVars, presentation, packet,
                   timestamp, buffer_offset, out_edits, out_edit, emitted, found, decoded, samples>>

\* get_input_packet, STATUS_RECOVERY_REQUIRED: lsmash_get_sample_info_from_media_timeline
\* fails, or lsmash_get_sample_from_media_timeline fails once recovery started;
\* do_decode returns the error at once.
DecFetchFail ==
    /\ prog = "dec" /\ pc = <<"do_decode", "get_input_packet">>
    /\ SampleExists(packet_number)
    /\ IF FetchFailed(-1)
       THEN DecodeReturns(-1)
       ELSE /\ ret' = -1
            /\ packet_number' = NextPacketNumber(packet_number)
            /\ UNCHANGED <<pc, edit_number, presentation, emitted, found, decoded, samples>>
    /\ UNCHANGED <<cfgVars, encVars, prog, exit_code, resVars, decInVars, packet, timestamp,
                   buffer_offset, out_edits, out_edit>>

\* get_input_packet, STATUS_RECOVERY_REQUIRED, a packet before start_time: only
\* its metadata is read and the index moves on.
DecScanSkip ==
    /\ prog = "dec" /\ pc = <<"do_decode", "get_input_packet">>
    /\ SampleExists(packet_number)
    /\ RecoveryRequired(presentation)
    /\ Cts(packet_number) < presentation.start_time
    /\ packet_number' = ScanNext(packet_number)
    /\ UNCHANGED <<cfgVars, encVars, prog, pc, exit_code, ret, resVars, decInVars, edit_number,
                   presentation, packet, timestamp, buffer_offset, out_edits, out_edit,
                   emitted, found, decoded, samples>>

\* get_input_packet, STATUS_RECOVERY_REQUIRED, the first packet not before
\* start_time: recovery starts pre_roll_distance (+ 1) packets earlier.
DecScanFound ==
    /\ prog = "dec" /\ pc = <<"do_decode", "get_input_packet">>
    /\ SampleExists(packet_number)
    /\ RecoveryRequired(presentation)
    /\ Cts(packet_number) >= presentation.start_time
    /\ presentation' = [presentation EXCEPT !.status = STATUS_RECOVERY_STARTED]
    /\ packet_number' = RewindTo(packet_number, Cts(packet_number),
                                 presentation.start_time, pre_roll)
    /\ found' = <<packet_number, Cts(packet_number)>>
    /\ UNCHANGED <<cfgVars, encVars, prog, pc, exit_code, ret, resVars, decInVars, edit_number, packet,
                   timestamp, buffer_offset, out_edits, out_edit, emitted, decoded, samples>>

\* free_input_packet leaving the sample alone.
free_input_packet_Leak(h, owned) == h

\* free_input_packet: lsmash_delete_sample( packet->sample ), which does nothing
\* for NULL.  h counts the samples held, owned tells packet->sample from NULL.
free_input_packet(h, owned) == IF owned THEN h - 1 ELSE h

\* get_input_packet, STATUS_RECOVERY_STARTED: the sample is fetched and returned.
DecFetch ==
    /\ prog = "dec" /\ pc = <<"do_decode", "get_input_packet">>
    /\ SampleExists(packet_number)
    /\ ~RecoveryRequired(presentation)
    /\ packet' = packet_number
    /\ held' = held + 1
    /\ ret' = 0
    /\ pc' = <<"do_decode", "decode">>
    /\ UNCHANGED <<cfgVars, encVars, prog, exit_code, in_root, out_root, buffer_alloc, codec, cleanups,
                   codec_creates, codec_destroys, codec_misuse, decInVars, edit_number, presentation,
                   packet_number, timestamp, buffer_offset, out_edits, out_edit, emitted, found,
                   decoded, samples>>

\* feed_packet_to_decoder: the frame size of the packet, or an error.
feed_packet_to_decoder(n) == {timeline[n], -1}

\* mux_pcm_samples taking a frame without samples for an error.
mux_pcm_samples_Strict(decoded_samples) == {-1} \cup {0 : x \in 1..decoded_samples}

\* The output timestamp advancing by one per appended sample instead of by its
\* length.
NextOutputTimestamp_PerSample(ts, decoded_samples) == IF decoded_samples > 0 THEN ts + 1 ELSE ts

\* out_media->timestamp += num_samples, after a successful append.
NextOutputTimestamp(ts, decoded_samples) == ts + decoded_samples

\* mux_pcm_samples: nothing to append (the value is returned), the append
\* fails (-1), or the samples are appended (0).

mux_pcm_samples(decoded_samples) == IF decoded_samples <= 0 THEN {decoded_samples} ELSE {-1, 0}

\* The packet loop after get_input_packet returned 0: feed_packet_to_decoder
\* hands the packet to the codec.
DecDecode ==
    /\ prog = "dec" /\ pc = <<"do_decode", "decode">>
    /\ codec_misuse' = (codec_misuse \/ codec # "live")
    /\ samples' \in feed_packet_to_decoder(packet)
    /\ decoded' = Append(decoded, packet)
    /\ pc' = <<"do_decode", "apply_edit">>
    /\ UNCHANGED <<cfgVars, encVars, prog, exit_code, ret, in_root, out_root, buffer_alloc,
                   codec, cleanups, codec_creates, codec_destroys, held, decInVars, edit_number,
                   presentation, packet_number, packet, timestamp, buffer_offset,
                   out_edits, out_edit, emitted, found>>

\* num_samples = apply_edit( ... ): the frame is trimmed to the edit.
DecApplyEdit ==
    /\ prog = "dec" /\ pc = <<"do_decode", "apply_edit">>
    /\ \E s1 \in Slack, s2 \in Slack :
          LET e == apply_edit(Cts(packet), samples, presentation, buffer_offset, s1, s2)
          IN  /\ samples' = e.num_samples
              /\ buffer_offset' = e.buffer_offset
              /\ presentation' = [presentation EXCEPT !.timestamp = e.timestamp]
    /\ pc' = <<"do_decode", "mux_pcm_samples">>
    /\ UNCHANGED <<cfgVars, encVars, prog, exit_code, ret, resVars, decInVars, edit_number,
                   packet_number, packet, timestamp, out_edits, out_edit, emitted, found,
                   decoded>>

\* ret = mux_pcm_samples( ... ), the packet is freed, and do_decode either
\* returns the error or steps to the next packet.
DecMux ==
    /\ prog = "dec" /\ pc = <<"do_decode", "mux_pcm_samples">>
    /\ \E r \in mux_pcm_samples(samples) :
          /\ timestamp' = IF r = 0 /\ samples > 0
                          THEN NextOutputTimestamp(timestamp, samples)
                          ELSE timestamp
          /\ appended' = IF r = 0 /\ samples > 0
                         THEN Append(appended, <<timestamp, samples>>)
                         ELSE appended
          /\ packet' = 0
          /\ held' = free_input_packet(held, packet # 0)
          /\ IF r < 0
             THEN DecodeReturns(r)
             ELSE /\ ret' = r
                  /\ emitted' = emitted + Max(samples, 0)
                  /\ packet_number' = NextPacketNumber(packet_number)
                  /\ IF PacketLoopRuns(r, presentation)
                     THEN /\ pc' = <<"do_decode", "get_input_packet">>
                          /\ UNCHANGED edit_number
                     ELSE NextEdit
                  /\ UNCHANGED <<presentation, found, decoded, samples>>
    /\ UNCHANGED <<cfgVars, encInVars, encPrepVars, buffer, buffer_pos, num_samples, eof,
                   frames, pushed, prog, exit_code, in_root, out_root, buffer_alloc, codec, cleanups,
                   codec_creates, codec_destroys, codec_misuse, decInVars, buffer_offset,
                   out_edits, out_edit>>

\* After the last edit: return flush_decoder( ... ).
DecFlush ==
    /\ prog = "dec" /\ pc = <<"do_decode", "edit_loop">>
    /\ edit_number > edit_count
    /\ \E r \in {-1, 0} : DecodeReturns(r)
    /\ UNCHANGED <<cfgVars, encVars, prog, exit_code, resVars, decInVars, packet, timestamp,
                   buffer_offset, out_edits, out_edit>>

NextDec ==
    \/ DecParseOptions \/ DecOpenInputFile \/ DecPrepareOutput \/ DecFinishMovie
    \/ DecMainError \/ DecMainUsageError \/ DecMainHelp \/ DecMainNext \/ DecMainDone
    \/ DecDoDecode \/ DecEditFail \/ DecEmptyEdit \/ DecBeginEdit \/ DecEndOfTrack
    \/ DecFetchFail \/ DecScanSkip \/ DecScanFound \/ DecFetch \/ DecDecode
    \/ DecApplyEdit \/ DecMux
    \/ DecFlush

(***************************************************************************)
(* mp4opusenc: main().                                                     *)
(***************************************************************************)
\* cleanup_mp4opusenc without the opus_multistream_encoder_destroy.
cleanup_mp4opusenc_NoDestroy ==
    /\ cleanups' = cleanups + 1
    /\ in_root' = NULL
    /\ out_root' = NULL
    /\ buffer_alloc' = IF buffer_alloc = "live" THEN "freed" ELSE buffer_alloc
    /\ UNCHANGED <<codec, codec_destroys, codec_misuse, codec_creates, held>>

\* cleanup_mp4opusenc: cleanup_input_movie (which frees the sample buffer),
\* cleanup_output_movie and opus_multistream_encoder_destroy( enc->opus.msenc ).
cleanup_mp4opusenc ==
    /\ cleanups' = cleanups + 1
    /\ in_root' = NULL
    /\ out_root' = NULL
    /\ buffer_alloc' = IF buffer_alloc = "live" THEN "freed" ELSE buffer_alloc
    /\ codec' = IF codec = NULL THEN NULL ELSE "destroyed"
    /\ codec_destroys' = codec_destroys + (IF codec = NULL THEN 0 ELSE 1)
    /\ codec_misuse' = (codec_misuse \/ codec = "destroyed")
    /\ UNCHANGED <<codec_creates, held>>

\* if( stage( &enc ) < 0 ) return MP4OPUSENC_ERR( ... ): mp4opusenc_error
\* cleans up and returns -1.
EncMainError ==
    /\ prog = "enc"
    /\ pc \in {<<"main", "parse_options">>, <<"main", "prepare_output">>,
               <<"main", "do_encode">>, <<"main", "construct_timeline_maps">>,
               <<"main", "finish_movie">>}
    /\ ret < 0
    /\ cleanup_mp4opusenc
    /\ exit_code' = -1
    /\ pc' = <<"returned", "main">>
    /\ UNCHANGED <<prog, ret, decVars, cfgVars, encVars>>

\* if( open_input_file( &enc ) < 0 ) return MP4OPUSENC_USAGE_ERR(): display_help
\* and return -1.
EncMainUsageError ==
    /\ prog = "enc"
    /\ pc = <<"main", "open_input_file">>
    /\ ret < 0
    /\ exit_code' = -1
    /\ pc' = <<"returned", "main">>
    /\ UNCHANGED <<prog, ret, resVars, decVars, cfgVars, encVars>>

\* if( enc.opt.help ) { display_help(); return 0; }
EncMainHelp ==
    /\ prog = "enc"
    /\ pc = <<"main", "parse_options">>
    /\ ret = 1
    /\ exit_code' = 0
    /\ pc' = <<"returned", "main">>
    /\ UNCHANGED <<prog, ret, resVars, decVars, cfgVars, encVars>>

EncStageAfter(stage) ==
    CASE stage = "parse_options" -> "open_input_file"
      [] stage = "open_input_file" -> "prepare_output"
      [] stage = "prepare_output" -> "do_encode"
      [] stage = "do_encode" -> "construct_timeline_maps"
      [] stage = "construct_timeline_maps" -> "finish_movie"

EncMainNext ==
    /\ prog = "enc"
    /\ pc \in {<<"main", "parse_options">>, <<"main", "open_input_file">>,
               <<"main", "prepare_output">>, <<"main", "do_encode">>,
               <<"main", "construct_timeline_maps">>}
    /\ ret = 0
    /\ pc' = <<"call", EncStageAfter(pc[2])>>
    /\ UNCHANGED <<prog, exit_code, ret, resVars, decVars, cfgVars, encVars>>

\* Encoding completed: cleanup_mp4opusenc( &enc ); return 0.
EncMainDone ==
    /\ prog = "enc"
    /\ pc = <<"main", "finish_movie">>
    /\ ret = 0
    /\ cleanup_mp4opusenc
    /\ exit_code' = 0
    /\ pc' = <<"returned", "main">>
    /\ UNCHANGED <<prog, ret, decVars, cfgVars, encVars>>

\* The frame sizes --framesize accepts: 2.5, 5, 10, 20, 40 and 60 ms.
ValidFrameSizes == {5, 10, 20, 40, 80, 120}

\* default_options: enc->opus.opt.frame_size = 20
DefaultFrameSize == 2 * 20

\* parse_options: -1 for a bad command line, 0 with opt.help set (modelled as
\* the value 1 of ret), 0 with the file names and the options; the frame size
\* is the default one or the one --framesize gives, which must be valid.
EncParseOptions ==
    /\ prog = "enc" /\ pc = <<"call", "parse_options">>
    /\ \E r \in {-1, 0, 1} :
          /\ r = 0 => \A x \in Range(argv_framesize) : x \in ValidFrameSizes
          /\ opt_frame_size' = IF r # 0 THEN opt_frame_size
                               ELSE IF argv_framesize = << >> THEN DefaultFrameSize
                               ELSE argv_framesize[1]
          /\ Return("parse_options", r)
    /\ UNCHANGED <<prog, exit_code, resVars, decVars, cfgVars, frequency, argv_framesize,
                   lookahead, encPrepVars, encLoopVars>>

\* open_input_file: lsmash_create_root can fail, leaving no root; every later
\* failure leaves the root (and what hangs on it) behind.
EncOpenInputFile ==
    /\ prog = "enc" /\ pc = <<"call", "open_input_file">>
    /\ \E r \in {<<NULL, -1>>, <<"live", -1>>, <<"live", 0>>} :
          /\ in_root' = r[1]
          /\ Return("open_input_file", r[2])
    /\ UNCHANGED <<prog, exit_code, out_root, buffer_alloc, codec, cleanups,
                   codec_creates, codec_destroys, codec_misuse, held, decVars, cfgVars, encVars>>

EncFinishMovie ==
    /\ prog = "enc" /\ pc = <<"call", "finish_movie">>
    /\ \E r \in {-1, 0} : Return("finish_movie", r)
    /\ UNCHANGED <<prog, exit_code, resVars, decVars, cfgVars, encVars>>

(***************************************************************************)
(* mp4opusenc: the sample buffer.                                          *)
(***************************************************************************)
\* The buffer is a sequence of runs <<byte, length>>, the byte being "zero" or
\* "pcm" (a byte copied from an input packet).
RECURSIVE TakeBytes(_, _)
TakeBytes(runs, n) ==
    IF n = 0 \/ runs = << >> THEN << >>
    ELSE IF Head(runs)[2] <= n
         THEN <<Head(runs)>> \o TakeBytes(Tail(runs), n - Head(runs)[2])
         ELSE <<<<Head(runs)[1], n>>>>

RECURSIVE DropBytes(_, _)
DropBytes(runs, n) ==
    IF n = 0 \/ runs = << >> THEN runs
    ELSE IF Head(runs)[2] <= n
         THEN DropBytes(Tail(runs), n - Head(runs)[2])
         ELSE <<<<Head(runs)[1], Head(runs)[2] - n>>>> \o Tail(runs)

RECURSIVE MergeRuns(_)
MergeRuns(runs) ==
    IF Len(runs) < 2 THEN runs
    ELSE IF runs[1][1] = runs[2][1]
         THEN MergeRuns(<<<<runs[1][1], runs[1][2] + runs[2][2]>>>> \o Tail(Tail(runs)))
         ELSE <<Head(runs)>> \o MergeRuns(Tail(runs))

\* The runs in normal form: none empty, no two neighbours of the same byte.
Runs(runs) == MergeRuns(SelectSeq(runs, LAMBDA r : r[2] > 0))

\* lsmash_malloc_zero( size )
ZeroBuffer(size) == Runs(<<<<"zero", size>>>>)

\* memcpy / memset of n bytes at offset pos of the buffer.
WriteBytes(buf, pos, n, byte) ==
    Runs(TakeBytes(buf, pos) \o <<<<byte, n>>>> \o DropBytes(buf, pos + n))

(***************************************************************************)
(* mp4opusenc: prepare_output.                                             *)
(***************************************************************************)
\* The least of the indexes whose entries match, 0 when none does.
FirstIndex(matching) ==
    IF matching # {}
    THEN CHOOSE i \in matching : \A j \in matching : i <= j
    ELSE 0

\* remap_channel_layout, the lookup: the (1-based) index of the entry found for
\* the first channel layout data of the summary, 0 when channel_layout_found
\* stays 0.  A bitmap layout is looked up by its bitmap; any other tag by the
\* tag, unless its upper 16 bits are those of QT_CHANNEL_LAYOUT_UNKNOWN.
LayoutIndex(l) ==
    IF ~l.present THEN 0
    ELSE IF l.tag = QT_CHANNEL_LAYOUT_USE_CHANNEL_BITMAP
         THEN FirstIndex({i \in 1..8 : l.bitmap = enc_channel_remap_table[i].bitmap})
         ELSE IF TagIsKnown(l.tag)
              THEN FirstIndex({i \in 1..8 : l.tag = enc_channel_remap_table[i].tag})
              ELSE 0

\* remap_channel_layout( summary, param, channel_mapping ) of mp4opusenc: both
\* arrays are written when the layout is found, or from the entry of the
\* channel count when there are less than 3 channels; otherwise neither is.
enc_remap_channel_layout(l, prm, cm) ==
    LET matched == LayoutIndex(l)
        index == IF matched # 0 THEN matched
                 ELSE IF prm.OutputChannelCount < 3 THEN prm.OutputChannelCount
                 ELSE 0
    IN  IF index = 0
        THEN [param |-> prm, channel_mapping |-> cm]
        ELSE [param |-> [prm EXCEPT !.ChannelMapping = enc_channel_remap_table[index].vorbis],
              channel_mapping |-> [defined |-> TRUE,
                                   bytes |-> enc_channel_remap_table[index].encoder]]

\* uint8_t channel_mapping[8]; of prepare_output: whatever the stack holds.
UninitialisedMappings ==
    {[defined |-> FALSE, bytes |-> b] :
        b \in {Pad8(<< >>), [i \in 1..8 |-> i - 1], [i \in 1..8 |-> 255]}}

\* The Opus specific info prepare_output fills in before remap_channel_layout.
OpusParam(chs, rate) ==
    LET coupled == <<0, 1, 1, 2, 2, 2, 2, 3>>[chs]
    IN  [OutputChannelCount |-> chs,
         InputSampleRate |-> rate,
         PreSkip |-> 0,
         OutputGain |-> 0,
         ChannelMappingFamily |-> IF chs > 2 THEN 1 ELSE 0,
         CoupledCount |-> coupled,
         StreamCount |-> chs - coupled,
         ChannelMapping |-> Pad8(<< >>)]

\* opus->frame_size = param->InputSampleRate * opus->opt.frame_size / 1000
FrameSize(rate, fs2) == TruncQ(rate * fs2, 2 * 1000)

\* PreSkip with the quotient of the rates upside down.
PreSkip_Inverted(priming, rate) == priming * (rate \div MediaRate)

\* param->PreSkip = priming_samples * (48000 / param->InputSampleRate)
PreSkip(priming, rate) == priming * (MediaRate \div rate)

\* setup_encoder: the encoder handle, opus->frame_size, param->PreSkip and the
\* return value.  opus_multistream_encoder_create fails; or the handle is
\* stored and an option fails to set; or the frame size is set too and
\* OPUS_GET_LOOKAHEAD fails; or everything succeeds.
setup_encoder(prm, fs2, old_frame_size) ==
    LET fs == FrameSize(prm.InputSampleRate, fs2)
    IN  { [msenc |-> NULL, frame_size |-> old_frame_size, PreSkip |-> prm.PreSkip, ret |-> -1],
          [msenc |-> "live", frame_size |-> old_frame_size, PreSkip |-> prm.PreSkip, ret |-> -1],
          [msenc |-> "live", frame_size |-> fs, PreSkip |-> prm.PreSkip, ret |-> -1],
          [msenc |-> "live", frame_size |-> fs,
           PreSkip |-> PreSkip(lookahead, prm.InputSampleRate), ret |-> 0] }

\* PrerollDistance without the - 1.
PrerollDistance_Over(fs2) == TruncQ(PreRollMs * 2 + fs2, fs2)

\* out_track->media.preroll_distance = (80 - 1) / opus->opt.frame_size + 1, a
\* double converted to uint32_t.
PrerollDistance(fs2) == TruncQ((PreRollMs - 1) * 2 + fs2, fs2)

\* out_track->media.sample_duration = 48000 * opus->opt.frame_size / 1000
SampleDuration(fs2) == TruncQ(MediaRate * fs2, 2 * 1000)

\* The places where prepare_output returns, in source order: each names the
\* last call of a run of calls that fail alike.
EncPrepareSteps ==
    <<"create_root", "create_opus_info", "setup_encoder", "alloc_buffer",
      "add_opus_info", "add_sample_entry", "return">>

\* prepare_output stopping at stop has gone past step.
Passed(stop, step) ==
    LET Index(name) == CHOOSE i \in 1..Len(EncPrepareSteps) : EncPrepareSteps[i] = name
    IN  Index(stop) > Index(step)

EncPrepareOutput ==
    /\ prog = "enc" /\ pc = <<"call", "prepare_output">>
    /\ \E i \in 1..Len(EncPrepareSteps), garbage \in UninitialisedMappings :
          LET stop == EncPrepareSteps[i]
              rm == enc_remap_channel_layout(layout, OpusParam(channels, frequency), garbage)
          IN  \E su \in setup_encoder(rm.param, opt_frame_size, frame_size) :
                 LET prm == [rm.param EXCEPT !.PreSkip = su.PreSkip]
                     size == su.frame_size * prm.OutputChannelCount * 2
                 IN  /\ (stop = "setup_encoder") = (su.ret < 0)
                     /\ out_root' = IF stop = "create_root" THEN NULL ELSE "live"
                     /\ IF Passed(stop, "create_opus_info")
                        THEN /\ param' = prm
                             /\ channel_mapping' = rm.channel_mapping
                             /\ codec' = su.msenc
                             /\ codec_creates' = codec_creates + (IF su.msenc = NULL THEN 0 ELSE 1)
                             /\ frame_size' = su.frame_size
                        ELSE UNCHANGED <<param, channel_mapping, codec, codec_creates, frame_size>>
                     /\ IF Passed(stop, "alloc_buffer")
                        THEN /\ buffer_alloc' = "live"
                             /\ buffer' = ZeroBuffer(size)
                             /\ buffer_size' = size
                             /\ priming_samples' = prm.PreSkip
                             /\ preroll_distance' = PrerollDistance(opt_frame_size)
                             /\ sample_duration' = SampleDuration(opt_frame_size)
                        ELSE UNCHANGED <<buffer_alloc, buffer, buffer_size, priming_samples,
                                         preroll_distance, sample_duration>>
                     /\ out_cs' = IF Passed(stop, "add_opus_info") THEN prm ELSE out_cs
                     /\ Return("prepare_output", IF stop = "return" THEN 0 ELSE -1)
    /\ UNCHANGED <<prog, exit_code, in_root, cleanups, codec_destroys, codec_misuse,
                   held, decVars, layout, encInVars, buffer_pos, num_samples, eof, frames,
                   appended, pushed>>

(***************************************************************************)
(* mp4opusenc: do_encode.                                                  *)
(***************************************************************************)
\* summary->bytes_per_frame of 16-bit LPCM.
BytesPerFrame == channels * 2

\* input_packet_t packet = { NULL }
NoPacket == [data |-> NULL, size |-> 0]

\* The state of the accumulator on entry to feed_packet_to_encoder.
Entered == [buffer_pos |-> buffer_pos, frames |-> Len(frames)]

\* do_encode returns r.
EncodeReturns(r) ==
    /\ Return("do_encode", r)
    /\ packet' = NoPacket

EncDoEncode ==
    /\ prog = "enc" /\ pc = <<"call", "do_encode">>
    /\ eof' = 0
    /\ packet_number' = 1
    /\ packet' = NoPacket
    /\ pc' = <<"do_encode", "get_input_packet">>
    /\ UNCHANGED <<prog, exit_code, ret, resVars, decInVars, edit_number, presentation,
                   timestamp, buffer_offset, out_edits, out_edit, emitted, found, decoded, samples,
                   cfgVars, encInVars, encPrepVars, buffer, buffer_pos, num_samples,
                   frames, appended, pushed>>

\* free_input_packet of mp4opusenc: lsmash_delete_sample( packet->sample ).
enc_free_input_packet(h, owned) == IF owned THEN h - 1 ELSE h

\* get_input_packet returns 0: the packet holds the sample, num_samples counts it.
EncGetInputPacket ==
    /\ prog = "enc" /\ pc = <<"do_encode", "get_input_packet">>
    /\ SampleExists(packet_number)
    /\ LET size == timeline[packet_number] * BytesPerFrame
       IN  /\ packet' = [data |-> "data", size |-> size]
           /\ num_samples' = num_samples + size \div BytesPerFrame
    /\ held' = held + 1
    /\ ret' = 0
    /\ pushed' = Entered
    /\ pc' = <<"do_encode", "feed">>
    /\ UNCHANGED <<prog, exit_code, in_root, out_root, buffer_alloc, codec, cleanups,
                   codec_creates, codec_destroys, codec_misuse, decInVars, edit_number, presentation,
                   packet_number, timestamp, buffer_offset, out_edits, out_edit, emitted,
                   found, decoded, samples, cfgVars, encInVars, encPrepVars, buffer, buffer_pos,
                   eof, frames, appended>>

\* get_input_packet returns an error: the sample exists and could not be read.
EncGetInputPacketFail ==
    /\ prog = "enc" /\ pc = <<"do_encode", "get_input_packet">>
    /\ SampleExists(packet_number)
    /\ EncodeReturns(-1)
    /\ UNCHANGED <<prog, exit_code, resVars, decInVars, edit_number, presentation,
                   packet_number, timestamp, buffer_offset, out_edits, out_edit, emitted,
                   found, decoded, samples, cfgVars, encVars>>

\* get_input_packet returns 1: no more samples, the packet stays { NULL }.
EncEndOfInput ==
    /\ prog = "enc" /\ pc = <<"do_encode", "get_input_packet">>
    /\ ~SampleExists(packet_number)
    /\ ret' = 1
    /\ eof' = 1
    /\ packet' = NoPacket
    /\ pushed' = Entered
    /\ pc' = <<"do_encode", "feed">>
    /\ UNCHANGED <<prog, exit_code, resVars, decInVars, edit_number, presentation,
                   packet_number, timestamp, buffer_offset, out_edits, out_edit,
                   emitted, found, decoded, samples, cfgVars, encInVars, encPrepVars, buffer,
                   buffer_pos, num_samples, frames, appended>>

\* FillWithZero leaving the region as it is.
FillWithZero_Nothing(buf, pos, invalid_size) == buf

\* memset( invalid, 0, invalid_size ) of feed_packet_to_encoder.
FillWithZero(buf, pos, invalid_size) == WriteBytes(buf, pos, invalid_size, "zero")

\* feed_packet_to_encoder, the head of its loop: input bytes are copied to the
\* invalid region of the buffer, or, without input, the region is zeroed.
CopyOrPad(pkt, buf, pos, size) ==
    LET invalid_size == size - pos
        consumed_size == MP4OPUSENC_MIN(invalid_size, pkt.size)
    IN  IF pkt.data # NULL
        THEN [buffer |-> WriteBytes(buf, pos, consumed_size, "pcm"),
              buffer_pos |-> pos + consumed_size,
              packet |-> [pkt EXCEPT !.size = pkt.size - consumed_size],
              padding_size |-> 0]
        ELSE [buffer |-> FillWithZero(buf, pos, invalid_size),
              buffer_pos |-> size,
              packet |-> pkt,
              padding_size |-> invalid_size]

\* A plain block in place of the loop: one turn whatever is left of the packet.
FeedLoopRuns_Once(pkt) == FALSE

\* while( packet->size ) of feed_packet_to_encoder.
FeedLoopRuns(pkt) == pkt.size # 0

\* feed_packet_to_encoder with a full buffer: lsmash_create_sample fails, or
\* opus_multistream_encode fails or returns 0 (nothing to mux), or
\* lsmash_append_sample fails or succeeds.
EncodeOutcomes == {"no_sample", "encode_error", "encode_nothing", "append_error", "appended"}

\* The timestamp advanced for frames without padding only.
NextTimestamp_Unpadded(ts, padding_size) ==
    IF padding_size = 0 THEN ts + sample_duration ELSE ts

\* The timestamp advanced whatever the frame holds.
NextTimestamp_Always(ts, padding_size) == ts + sample_duration

\* out_media->timestamp after a sample made with padding_size bytes of padding
\* has been appended.
NextTimestamp(ts, padding_size) ==
    IF padding_size # buffer_size THEN ts + sample_duration ELSE ts

\* feed_packet_to_encoder has returned 0.  In do_encode the packet is freed
\* and the loop either takes the next packet or, after end of input, ends
\* with flush_encoder; in flush_encoder the pooled samples are flushed and
\* do_encode returns.
AfterFeed(pkt) ==
    IF pc[1] = "do_encode"
    THEN /\ packet_number' = packet_number + 1
         /\ packet' = IF eof # 0 THEN NoPacket ELSE pkt
         /\ ret' = 0
         /\ pc' = IF eof # 0 THEN <<"flush_encoder", "feed">>
                            ELSE <<"do_encode", "get_input_packet">>
    ELSE /\ \E r \in {-1, 0} : EncodeReturns(r)
         /\ UNCHANGED packet_number

\* One turn of the loop of feed_packet_to_encoder.
EncFeed ==
    /\ prog = "enc" /\ pc \in {<<"do_encode", "feed">>, <<"flush_encoder", "feed">>}
    /\ LET c == CopyOrPad(packet, buffer, buffer_pos, buffer_size)
       IN  /\ buffer' = c.buffer
           /\ IF c.buffer_pos >= buffer_size
              THEN \E o \in EncodeOutcomes :
                     /\ buffer_pos' = 0
                     /\ frames' = IF o = "no_sample" THEN frames
                                  ELSE Append(frames, [pcm |-> c.buffer, frame_size |-> frame_size])
                     /\ codec_misuse' = (codec_misuse \/ (o # "no_sample" /\ codec # "live"))
                     /\ IF o = "appended"
                        THEN /\ appended' = Append(appended, timestamp)
                             /\ timestamp' = NextTimestamp(timestamp, c.padding_size)
                        ELSE UNCHANGED <<appended, timestamp>>
                     /\ IF o \in {"no_sample", "encode_error", "append_error"}
                        THEN EncodeReturns(-1) /\ UNCHANGED packet_number
                        ELSE IF FeedLoopRuns(c.packet)
                             THEN /\ packet' = c.packet
                                  /\ UNCHANGED <<pc, ret, packet_number>>
                             ELSE AfterFeed(c.packet)
              ELSE /\ buffer_pos' = c.buffer_pos
                   /\ UNCHANGED <<frames, codec_misuse, appended, timestamp>>
                   /\ IF FeedLoopRuns(c.packet)
                      THEN /\ packet' = c.packet
                           /\ UNCHANGED <<pc, ret, packet_number>>
                      ELSE AfterFeed(c.packet)
    /\ pushed' = IF pc[1] = "do_encode" /\ pc'[1] = "flush_encoder"
                 THEN [buffer_pos |-> buffer_pos', frames |-> Len(frames')]
                 ELSE pushed
    /\ held' = IF pc[1] = "do_encode" /\ pc' # pc
               THEN enc_free_input_packet(held, packet.data # NULL)
               ELSE held
    /\ UNCHANGED <<prog, exit_code, in_root, out_root, buffer_alloc, codec, cleanups,
                   codec_creates, codec_destroys, decInVars, edit_number, presentation,
                   buffer_offset, out_edits, out_edit, emitted, found, decoded, samples, cfgVars,
                   encInVars, encPrepVars, num_samples, eof>>

\* construct_timeline_maps: .duration = ((double)num_samples * 48000) / frequency
EditDuration(n, rate) == TruncQ(n * MediaRate, rate)

\* EditStartTime taken from the neighbouring field.
EditStartTime_Preroll == preroll_distance

\* construct_timeline_maps: the start time of the edit.
EditStartTime == priming_samples

EncConstructTimelineMaps ==
    /\ prog = "enc" /\ pc = <<"call", "construct_timeline_maps">>
    /\ \/ /\ Return("construct_timeline_maps", -1)
          /\ UNCHANGED <<out_edits, out_edit>>
       \/ /\ out_edit' = [start_time |-> EditStartTime,
                          duration |-> EditDuration(num_samples, frequency),
                          rate |-> ISOM_EDIT_MODE_NORMAL]
          /\ out_edits' = out_edits + 1
          /\ Return("construct_timeline_maps", 0)
    /\ UNCHANGED <<prog, exit_code, resVars, decInVars, edit_number, presentation,
                   packet_number, packet, timestamp, buffer_offset, emitted, found,
                   decoded, samples, cfgVars, encVars>>

NextEnc ==
    \/ EncParseOptions \/ EncOpenInputFile \/ EncPrepareOutput \/ EncFinishMovie
    \/ EncMainError \/ EncMainUsageError \/ EncMainHelp \/ EncMainNext \/ EncMainDone
    \/ EncDoEncode \/ EncGetInputPacket \/ EncGetInputPacketFail \/ EncEndOfInput
    \/ EncFeed \/ EncConstructTimelineMaps

(***************************************************************************)
(* Initial states.                                                         *)
(***************************************************************************)
InitSession(program) ==
    /\ prog = program
    /\ pc = <<"call", "parse_options">>
    /\ exit_code = 0
    /\ ret = 0
    /\ in_root = NULL
    /\ out_root = NULL
    /\ buffer_alloc = NULL
    /\ codec = NULL
    /\ cleanups = 0
    /\ codec_creates = 0
    /\ codec_destroys = 0
    /\ codec_misuse = FALSE
    /\ held = 0
    /\ packet_number = 0
    /\ timestamp = 0
    /\ out_edits = 0
    /\ out_edit = [start_time |-> 0, duration |-> 0, rate |-> 0]
    /\ channel_mapping = [defined |-> FALSE, bytes |-> Pad8(<< >>)]

\* No channel layout data.
NoLayout == [present |-> FALSE, tag |-> QT_CHANNEL_LAYOUT_UNKNOWN, bitmap |-> {}]

\* The channel layout data that names entry index of the encoder's table by its bitmap.
BitmapLayout(index) ==
    [present |-> TRUE,
     tag |-> QT_CHANNEL_LAYOUT_USE_CHANNEL_BITMAP,
     bitmap |-> enc_channel_remap_table[index].bitmap]

\* The Opus specific info mp4opusenc writes for an input of chs channels at
\* rate Hz whose layout is that of entry chs, the encoder's lookahead being la.
EncodedParam(chs, rate, la) ==
    [enc_remap_channel_layout(BitmapLayout(chs), OpusParam(chs, rate),
                              [defined |-> FALSE, bytes |-> Pad8(<< >>)]).param
        EXCEPT !.PreSkip = PreSkip(la, rate)]

\* The state of mp4opusenc that mp4opusdec has no use for, and the reverse.
EncoderUnused ==
    /\ frequency = 0
    /\ argv_framesize = << >>
    /\ opt_frame_size = 0
    /\ lookahead = 0
    /\ frame_size = 0
    /\ buffer_size = 0
    /\ priming_samples = 0
    /\ preroll_distance = 0
    /\ sample_duration = 0
    /\ out_cs = OpusParam(1, MediaRate)
    /\ buffer = << >>
    /\ buffer_pos = 0
    /\ num_samples = 0
    /\ eof = 0
    /\ frames = << >>
    /\ appended = << >>
    /\ pushed = [buffer_pos |-> 0, frames |-> 0]

DecoderUnused ==
    /\ timescale = MediaRate
    /\ pre_roll = 0
    /\ edit_count = 0
    /\ edits = {}
    /\ edit_number = 0
    /\ presentation = [status |-> STATUS_RECOVERY_REQUIRED, timescale |-> timescale,
                       timestamp |-> 0, duration |-> 0, start_time |-> 0, rate |-> 0]
    /\ buffer_offset = 0
    /\ emitted = 0
    /\ found = <<0, 0>>
    /\ decoded = << >>
    /\ samples = 0

\* mp4opusdec on an input file whose timeline is one of tls, with a movie
\* timescale in tss, a pre-roll distance in prs, up to ne edits taken from eds
\* and a channel count in chs.
InitDecoder(tls, tss, prs, ne, eds, chs) ==
    /\ InitSession("dec")
    /\ EncoderUnused
    /\ edits = eds
    /\ timeline \in tls
    /\ timescale \in tss
    /\ pre_roll \in prs
    /\ edit_count \in 0..ne
    /\ channels \in chs
    /\ param = EncodedParam(channels, MediaRate, 0)
    /\ layout = NoLayout
    /\ edit_number = 0
    /\ presentation = [status |-> STATUS_RECOVERY_REQUIRED, timescale |-> timescale,
                       timestamp |-> 0, duration |-> 0, start_time |-> 0, rate |-> 0]
    /\ packet = 0
    /\ buffer_offset = 0
    /\ emitted = 0
    /\ found = <<0, 0>>
    /\ decoded = << >>
    /\ samples = 0

\* mp4opusenc on an LPCM input whose packets hold the sample counts of one of
\* tls, at a rate in rates, with a channel count in chs and channel layout data
\* in lays, a --framesize argument in fss and an encoder lookahead in las.
InitEncoder(tls, rates, chs, lays, fss, las) ==
    /\ InitSession("enc")
    /\ DecoderUnused
    /\ timeline \in tls
    /\ frequency \in rates
    /\ channels \in chs
    /\ layout \in lays
    /\ argv_framesize \in fss
    /\ lookahead \in las
    /\ param = OpusParam(1, MediaRate)
    /\ opt_frame_size = 0
    /\ frame_size = 0
    /\ buffer_size = 0
    /\ priming_samples = 0
    /\ preroll_distance = 0
    /\ sample_duration = 0
    /\ out_cs = OpusParam(1, MediaRate)
    /\ buffer = << >>
    /\ buffer_pos = 0
    /\ num_samples = 0
    /\ eof = 0
    /\ frames = << >>
    /\ appended = << >>
    /\ pushed = [buffer_pos |-> 0, frames |-> 0]
    /\ packet = NoPacket

Edits(start_times, durations) ==
    {[start_time |-> st, duration |-> du, rate |-> ISOM_EDIT_MODE_NORMAL] :
        st \in start_times, du \in durations}

\* mp4opusdec: short timelines of mixed frame sizes, edits that start and end
\* inside them.
FrameSizes == {120, 960}

Timescales == {1000, 48000}

InitDec ==
    InitDecoder(SeqsUpTo(FrameSizes, MaxPackets), Timescales, {1}, MaxEdits,
                Edits({-1, 0, 100, 120}, {0, 2, 20}), {2})

SpecDec == InitDec /\ [][NextDec]_vars

\* mp4opusdec: long timelines of 20 ms frames, edits that start at or just
\* after a packet.
ScanFrames == {960}

InitRecovery ==
    InitDecoder({[i \in 1..n |-> f] : n \in 0..MaxScanPackets, f \in ScanFrames},
                {MediaRate}, {0, 2, 4}, 1,
                Edits({-1} \cup {f * k + o : f \in ScanFrames, k \in 0..(MaxScanPackets - 1),
                                             o \in {0, 1}},
                      ScanFrames),
                {2})

SpecRecovery == InitRecovery /\ [][NextDec]_vars

\* mp4opusdec is sequential code: as long as it has a step to take it takes one.
SpecRecoveryLive == InitRecovery /\ [][NextDec]_vars /\ WF_vars(NextDec)

\* What OPUS_GET_LOOKAHEAD reports for an encoder at rate Hz: 2.5 ms in the
\* restricted low-delay application, 4 ms more in the others.
OpusLookaheads(rate) == {rate \div 400, rate \div 400 + rate \div 250}

\* mp4opusenc: 8 kHz mono in 2.5 ms frames of 20 samples, fed by packets that
\* are shorter than, as long as and longer than a frame.
ChunkSizes == {7, 20, 33}

InitEnc ==
    InitEncoder(SeqsUpTo(ChunkSizes, MaxChunks), {8000}, {1}, {NoLayout}, {<<5>>},
                (1..MaxLookahead) \cup OpusLookaheads(8000))

SpecEnc == InitEnc /\ [][NextEnc]_vars

\* The loop of feed_packet_to_encoder is sequential code: once entered it keeps
\* taking turns until it is left.
SpecEncLive == InitEnc /\ [][NextEnc]_vars /\ WF_vars(EncFeed)

\* Both programs on every channel count: mp4opusenc with every kind of channel
\* layout data, and with every input rate it accepts and every --framesize
\* argument.
SampleRates == {8000, 12000, 16000, 24000, 48000}

TagLayout(tag) == [present |-> TRUE, tag |-> tag, bitmap |-> {}]

Layouts ==
    {NoLayout}
    \cup {BitmapLayout(i) : i \in 1..8}
    \cup {TagLayout(enc_channel_remap_table[i].tag) : i \in 1..8}
    \cup {TagLayout(QT_CHANNEL_LAYOUT_MPEG_7_1_A),
          [present |-> TRUE, tag |-> QT_CHANNEL_LAYOUT_USE_CHANNEL_BITMAP, bitmap |-> {"LEFT"}]}

FrameSizeArguments == {<< >>} \cup {<<x>> : x \in ValidFrameSizes \cup {2 * 30}}

Init ==
    \/ InitEncoder({<<7>>}, {MediaRate}, 1..8, Layouts, {<< >>}, {1})
    \/ InitEncoder({<<7>>}, SampleRates, {1}, {NoLayout}, FrameSizeArguments,
                   1..MaxLookahead)
    \/ InitDecoder({<<960, 960>>}, {MediaRate}, {0, 1}, 1, Edits({-1, 0, 960}, {0}), 1..8)

Next == NextEnc \/ NextDec

Spec == Init /\ [][Next]_vars

(***************************************************************************)
(* Claims.                                                                 *)
(***************************************************************************)
\* The packet loop of an edit has ended (the edit loop is at its next edit).
PacketLoopEnded == pc = <<"do_decode", "edit_loop">> /\ edit_number > 1

\* C1: over a whole edit with duration D (movie timescale) the samples appended
\* to the output, converted to the movie timescale (count x timescale / 48000),
\* never exceed D.
C1_EmittedWithinDuration ==
    pc[1] = "do_decode" =>
        emitted * presentation.timescale <= presentation.duration * MediaRate

\* C2: when the packet loop of an edit with start time S and duration D ends and
\* the media timeline holds at least S + D samples, the samples appended in the
\* edit amount to exactly D in the movie timescale.
C2_EmittedEqualsDuration ==
    (/\ PacketLoopEnded
     /\ MediaDuration * presentation.timescale >=
            presentation.start_time * presentation.timescale
            + presentation.duration * MediaRate)
    => emitted * presentation.timescale = presentation.duration * MediaRate

\* C4: when the scan finds the first packet not before start_time at index p,
\* with pre-roll distance d, decoding resumes at packet max(1, p - d - e), e = 1
\* if that packet's timestamp is after start_time and 0 if it equals it.
C4_RewindIndex ==
    (pc[1] = "do_decode" /\ found[1] > 0) =>
        LET e == IF found[2] > presentation.start_time THEN 1 ELSE 0
            resume == Max(1, found[1] - pre_roll - e)
        IN  IF decoded = << >> THEN packet_number = resume ELSE decoded[1] = resume

\* The example of the specification: p = 10, d = 4, timestamp == start_time
\* resumes at packet 6.
C4_Witness ==
    /\ found = <<10, presentation.start_time>>
    /\ pre_roll = 4
    /\ decoded # << >>
    /\ decoded[1] = 6

\* do_encode has returned 0 to main().
EncodeDone == prog = "enc" /\ pc = <<"main", "do_encode">> /\ ret = 0

\* A buffer of frame_size samples: n samples of input, then zeros.
PcmThenZero(n) ==
    Runs(<< <<"pcm", n * BytesPerFrame>>, <<"zero", (frame_size - n) * BytesPerFrame>> >>)

\* C3 (as claimed): for input packets summing to N samples followed by end of
\* input, the session hands exactly ceil(N / frame_size) frames to the codec.
C3_CeilFrames ==
    EncodeDone =>
        Len(frames) = (SumSeq(timeline) + frame_size - 1) \div frame_size

\* C3 (amended): for input packets summing to N samples followed by end of
\* input, a session whose do_encode succeeds hands floor(N / frame_size) + 2
\* frames to the codec, each of exactly frame_size samples: the full frames of
\* input, one frame with the N mod frame_size samples left and zeros after
\* them, and the all-zero frame of the flush.
C3_FramesHandedToCodec ==
    EncodeDone =>
        LET N == SumSeq(timeline)
            full == N \div frame_size
        IN  /\ Len(frames) = full + 2
            /\ \A i \in 1..Len(frames) :
                  /\ frames[i].frame_size = frame_size
                  /\ frames[i].pcm = PcmThenZero(IF i <= full THEN frame_size
                                                 ELSE IF i = full + 1 THEN N % frame_size
                                                 ELSE 0)

\* 73 samples in packets of 33, 7 and 33: three full frames, one of 13 samples
\* and zeros, one of zeros.
C3_Witness ==
    /\ EncodeDone
    /\ timeline = <<33, 7, 33>>
    /\ Len(frames) = 5
    /\ frames[4].pcm = <<<<"pcm", 26>>, <<"zero", 14>>>>

\* prepare_output of mp4opusenc has succeeded and main() has not returned.
EncoderPrepared ==
    /\ prog = "enc"
    /\ \/ pc[1] \in {"do_encode", "flush_encoder"}
       \/ pc = <<"main", "prepare_output">> /\ ret = 0
       \/ pc[2] \in {"do_encode", "construct_timeline_maps", "finish_movie"}

\* C10: the start_time of the edit mp4opusenc writes equals priming_samples,
\* which equals the PreSkip stored in the Opus specific info; the value is the
\* one setup_encoder computed from the encoder's lookahead, whatever number of
\* frames has been pushed since.
C10_StartTimeIsPreSkip ==
    EncoderPrepared =>
        /\ priming_samples = PreSkip(lookahead, frequency)
        /\ out_cs.PreSkip = priming_samples
        /\ out_edits > 0 => out_edit.start_time = priming_samples

\* The edit written after five frames were pushed, for a lookahead of 2
\* samples at 8 kHz.
C10_Witness ==
    /\ prog = "enc"
    /\ out_edits = 1
    /\ Len(frames) = 5
    /\ out_edit.start_time = 12
    /\ out_cs.PreSkip = 12

\* The first count elements of arr are a bijection on [0, count).
IsBijection(arr, count) ==
    /\ \A i \in 1..count : arr[i] \in 0..(count - 1)
    /\ \A i, j \in 1..count : i # j => arr[i] # arr[j]

\* C5: in every entry of the encoder's and of the decoder's remap table, for
\* channel counts 1 to 8, the first count elements of encoder[] and of vorbis[]
\* are a bijection on [0, count); so are the arrays each program takes from its
\* table: the mapping mp4opusenc creates the encoder with and writes to the
\* Opus specific info, and the mapping mp4opusdec creates the decoder with.
C5_TablesAreBijections ==
    /\ \A count \in 1..8 :
          /\ IsBijection(enc_channel_remap_table[count].encoder, count)
          /\ IsBijection(enc_channel_remap_table[count].vorbis, count)
          /\ IsBijection(dec_channel_remap_table[count].vorbis, count)
    /\ (EncoderPrepared /\ LayoutIndex(layout) # 0) =>
          /\ IsBijection(channel_mapping.bytes, LayoutIndex(layout))
          /\ IsBijection(out_cs.ChannelMapping, LayoutIndex(layout))
    /\ (prog = "dec" /\ channel_mapping.defined) =>
          IsBijection(channel_mapping.bytes, channels)

\* mp4opusdec has set up the decoder of a 6-channel stream.
C5_Witness ==
    /\ prog = "dec"
    /\ codec = "live"
    /\ channels = 6
    /\ param.ChannelMapping = Pad8(<<0, 4, 1, 2, 3, 5>>)
    /\ channel_mapping.bytes = Pad8(<<0, 1, 4, 5, 2, 3>>)

\* C6: for every frame duration --framesize accepts, preroll_distance times
\* the frame duration is at least 80 ms and no smaller distance is: 32, 16, 8,
\* 4, 2 and 2 for 2.5, 5, 10, 20, 40 and 60 ms.
C6_PrerollCoversEightyMs ==
    EncoderPrepared =>
        /\ opt_frame_size \in ValidFrameSizes
        /\ preroll_distance * opt_frame_size >= PreRollMs * 2
        /\ (preroll_distance - 1) * opt_frame_size < PreRollMs * 2
        /\ preroll_distance = CASE opt_frame_size = 5 -> 32
                                [] opt_frame_size = 10 -> 16
                                [] opt_frame_size = 20 -> 8
                                [] opt_frame_size = 40 -> 4
                                [] opt_frame_size = 80 -> 2
                                [] opt_frame_size = 120 -> 2

\* --framesize 2.5: 32 frames of pre-roll.
C6_Witness ==
    /\ EncoderPrepared
    /\ argv_framesize = <<5>>
    /\ preroll_distance = 32

\* main() has returned -1.
FatalError == pc = <<"returned", "main">> /\ exit_code = -1

\* C7: whichever stage raises a fatal error, the teardown has run exactly once
\* when the program returns: the buffer is freed, the codec handle destroyed
\* and both container handles closed.
C7_ErrorsTearDownOnce ==
    FatalError =>
        /\ cleanups = 1
        /\ in_root = NULL
        /\ out_root = NULL
        /\ buffer_alloc # "live"
        /\ codec # "live"

\* C8: an input of more than 2 channels whose channel layout matches no table
\* entry is rejected before anything is buffered or encoded, and no encoder is
\* created for it.
C8_UnmatchedLayoutRejected ==
    (prog = "enc" /\ channels > 2 /\ LayoutIndex(layout) = 0) =>
        /\ codec_creates = 0
        /\ num_samples = 0
        /\ frames = << >>
        /\ ~(pc = <<"main", "prepare_output">> /\ ret = 0)

\* C9: the codec handle is created at most once, never destroyed more often
\* than created, never used once destroyed, and destroyed when main() returns.
C9_CodecLifecycle ==
    /\ codec_creates <= 1
    /\ codec_destroys <= codec_creates
    /\ ~codec_misuse
    /\ pc = <<"returned", "main">> => (codec_destroys = codec_creates /\ codec # "live")

\* mp4opusenc returns after its loop failed with frames already encoded.
C9_Witness ==
    /\ prog = "enc"
    /\ FatalError
    /\ frames # << >>
    /\ codec_creates = 1
    /\ codec_destroys = 1

\* C11: for every input rate mp4opusenc accepts and every lookahead L of the
\* encoder, priming_samples is L x (48000 / rate), the quotient being one of
\* the integers 6, 4, 3, 2 and 1 without remainder: L on the 48 kHz clock.
C11_PrimingOnMediaClock ==
    EncoderPrepared =>
        /\ frequency \in SampleRates
        /\ MediaRate % frequency = 0
        /\ MediaRate \div frequency \in {6, 4, 3, 2, 1}
        /\ priming_samples * frequency = lookahead * MediaRate
        /\ priming_samples = lookahead * (MediaRate \div frequency)

\* A lookahead of 2 samples at 12 kHz: 8 priming samples.
C11_Witness ==
    /\ EncoderPrepared
    /\ frequency = 12000
    /\ lookahead = 2
    /\ priming_samples = 8

\* A turn of the loop of feed_packet_to_encoder is about to be taken.
InPush == prog = "enc" /\ pc \in {<<"do_encode", "feed">>, <<"flush_encoder", "feed">>}

\* C12: in every turn of the loop of feed_packet_to_encoder the cursor stays
\* within 0..buffer_size, also right after the copy or the padding; a frame is
\* handed to the codec only when the cursor has reached buffer_size and, unless
\* the output sample cannot be allocated (the push then returns an error),
\* whenever it has; the cursor is then 0 again, so that between turns and after
\* a push has returned the cursor is within 0..buffer_size - 1.
C12_CursorWithinBuffer ==
    [][InPush =>
          LET c == CopyOrPad(packet, buffer, buffer_pos, buffer_size)
          IN  /\ 0 <= buffer_pos /\ buffer_pos < buffer_size
              /\ 0 <= c.buffer_pos /\ c.buffer_pos <= buffer_size
              /\ Len(frames') \in {Len(frames), Len(frames) + 1}
              /\ Len(frames') = Len(frames) + 1 => c.buffer_pos = buffer_size
              /\ c.buffer_pos = buffer_size =>
                    /\ buffer_pos' = 0
                    /\ Len(frames') = Len(frames) + 1 \/ ret' < 0
              /\ c.buffer_pos < buffer_size => buffer_pos' = c.buffer_pos
              /\ 0 <= buffer_pos' /\ buffer_pos' < buffer_size]_vars

\* A push has returned after one frame was handed to the codec, the cursor in
\* the middle of the buffer.
C12_Witness ==
    /\ prog = "enc" /\ pc = <<"do_encode", "get_input_packet">>
    /\ Len(frames) = 1
    /\ buffer_pos = 26
    /\ buffer_size = 40

\* The push of the packet before packet_number has returned 0.
PushReturned ==
    /\ prog = "enc" /\ pc = <<"do_encode", "get_input_packet">>
    /\ packet_number > 1

\* C13: a push of a packet of len > 0 bytes, entered with the cursor at b, comes
\* to an end; when it has returned 0 nothing of the packet is left, the frames
\* handed to the codec during the push are floor((b + len) / buffer_size) and
\* the cursor is at (b + len) mod buffer_size.
C13_PushConsumesChunk ==
    /\ [](PushReturned =>
            LET len == timeline[packet_number - 1] * BytesPerFrame
                b == pushed.buffer_pos
            IN  /\ len > 0 /\ buffer_size > 0
                /\ packet.data # NULL /\ packet.size = 0
                /\ Len(frames) - pushed.frames = (b + len) \div buffer_size
                /\ buffer_pos = (b + len) % buffer_size)
    /\ (InPush /\ packet.data # NULL) ~> ~InPush

\* A push entered with 7 samples in the buffer has handed two frames to the
\* codec and left the buffer empty.
C13_Witness ==
    /\ PushReturned
    /\ pushed.buffer_pos = 14
    /\ Len(frames) - pushed.frames = 2
    /\ buffer_pos = 0

\* The buffer holds at least one byte of input.
HasInput(buf) == \E i \in 1..Len(buf) : buf[i][1] = "pcm" /\ buf[i][2] > 0

\* C14: once the encoder is prepared, a step that appends a sample to the
\* output advances the output timestamp by sample_duration when the frame
\* holds at least one byte of input and by 0 when the frame is padding only;
\* every other step leaves the output timestamp as it is.
C14_TimestampAdvance ==
    [][EncoderPrepared =>
          IF Len(appended') = Len(appended) + 1
          THEN /\ Len(frames') = Len(frames) + 1
               /\ timestamp' = timestamp +
                     (IF HasInput(frames'[Len(frames')].pcm) THEN sample_duration ELSE 0)
          ELSE /\ appended' = appended
               /\ timestamp' = timestamp]_vars

\* One frame of input, then the padding-only frame of the end of input and the
\* frame of the flush: three samples appended, the timestamp advanced once.
C14_Witness ==
    /\ EncodeDone
    /\ Len(appended) = 3
    /\ appended[2] = appended[3]
    /\ timestamp = sample_duration
    /\ timestamp > 0

\* do_decode is inside the packet loop of an edit.
InPacketLoop ==
    /\ prog = "dec"
    /\ pc[1] = "do_decode"
    /\ pc[2] \in {"get_input_packet", "decode", "apply_edit", "mux_pcm_samples"}

\* C15: while the presentation of an edit is in STATUS_RECOVERY_REQUIRED no
\* sample data is fetched and the decoder is not invoked; a packet whose
\* timestamp is before start_time only moves the packet index on by one.  A
\* packet is held, and the decoder invoked, only in STATUS_RECOVERY_STARTED.
C15_ScanReadsMetadataOnly ==
    [][InPacketLoop =>
          /\ pc[2] # "get_input_packet" => presentation.status = STATUS_RECOVERY_STARTED
          /\ packet # 0 => presentation.status = STATUS_RECOVERY_STARTED
          /\ presentation.status = STATUS_RECOVERY_REQUIRED =>
                /\ packet' = 0
                /\ pc'[2] # "decode"
                /\ codec_misuse' = codec_misuse
                /\ decoded = << >> /\ decoded' = << >>
                /\ (/\ SampleExists(packet_number)
                    /\ Cts(packet_number) < presentation.start_time
                    /\ pc'[1] = "do_decode") =>
                      /\ packet_number' = packet_number + 1
                      /\ UNCHANGED <<pc, ret, presentation, timestamp, buffer_offset,
                                     emitted, samples, edit_number, out_edits>>]_vars

\* The scan has passed two packets and stands at a third one before start_time.
C15_Witness ==
    /\ InPacketLoop
    /\ pc[2] = "get_input_packet"
    /\ presentation.status = STATUS_RECOVERY_REQUIRED
    /\ packet_number = 3
    /\ SampleExists(packet_number)
    /\ Cts(packet_number) < presentation.start_time
    /\ decoded = << >>

\* C16: an edit enters its packet loop in STATUS_RECOVERY_REQUIRED at packet 1;
\* within the edit STATUS_RECOVERY_STARTED is never left again; once it is
\* entered the packet index moves on by exactly one per turn of the loop, each
\* packet decoded is handed to apply_edit, and the packets decoded are the
\* consecutive ones from the index the scan rewound to, each once and in order.
C16_DecodesInOrderFromRewound ==
    [][/\ (prog = "dec" /\ pc = <<"do_decode", "edit_loop">> /\ InPacketLoop') =>
             /\ presentation'.status = STATUS_RECOVERY_REQUIRED
             /\ packet_number' = 1
             /\ decoded' = << >>
       /\ (InPacketLoop /\ InPacketLoop' /\ presentation.status = STATUS_RECOVERY_STARTED) =>
             /\ presentation'.status = STATUS_RECOVERY_STARTED
             /\ packet_number' = IF pc[2] = "mux_pcm_samples" THEN packet_number + 1
                                                             ELSE packet_number
             /\ pc[2] = "get_input_packet" => pc'[2] = "decode" /\ packet' = packet_number
             /\ pc[2] = "decode" =>
                   pc'[2] = "apply_edit" /\ decoded' = Append(decoded, packet_number)
             /\ pc[2] = "apply_edit" => pc'[2] = "mux_pcm_samples"
             /\ pc[2] # "decode" => decoded' = decoded
       /\ (InPacketLoop /\ presentation.status = STATUS_RECOVERY_STARTED) =>
             LET resume == RewindTo(found[1], found[2], presentation.start_time, pre_roll)
                 in_hand == IF pc[2] \in {"apply_edit", "mux_pcm_samples"} THEN 1 ELSE 0
             IN  /\ \A i \in 1..Len(decoded) : decoded[i] = resume + i - 1
                 /\ packet_number = resume + Len(decoded) - in_hand]_vars

\* The scan found packet 4 and rewound to packet 2; packets 2, 3 and 4 have
\* been decoded.
C16_Witness ==
    /\ InPacketLoop
    /\ pc[2] = "mux_pcm_samples"
    /\ presentation.status = STATUS_RECOVERY_STARTED
    /\ found[1] = 4
    /\ decoded = <<2, 3, 4>>

\* C17: apply_edit on a frame of n > 0 samples of a packet with timestamp c
\* skips min(n, S - c) samples when c is before start_time S and none
\* otherwise; the skipped samples are taken off the sample count (which the end
\* of the edit may reduce further) and buffer_offset is their size in bytes;
\* a frame that ends at or before S leaves no samples and the presentation
\* timestamp where it was.
C17_PreSkipAtEditStart ==
    [][(InPacketLoop /\ pc[2] = "apply_edit" /\ samples > 0) =>
          LET n == samples
              c == Cts(packet)
              S == presentation.start_time
              pre_skipped == IF c < S THEN (IF n < S - c THEN n ELSE S - c) ELSE 0
          IN  /\ buffer_offset' = pre_skipped * channels * 2
              /\ samples' <= n - pre_skipped
              /\ presentation'.timestamp <= presentation.duration =>
                    samples' = n - pre_skipped
              /\ c + n <= S =>
                    /\ samples' = 0
                    /\ presentation'.timestamp = presentation.timestamp]_vars

\* The frame of the packet one sample before start_time, trimmed: one sample
\* of two channels skipped.
C17_Witness ==
    /\ InPacketLoop
    /\ pc[2] = "mux_pcm_samples"
    /\ Cts(packet) + 1 = presentation.start_time
    /\ buffer_offset = 4
    /\ samples = 959

\* C18: trimming a decoded frame (a positive sample count) never leaves a
\* negative count, so the count left is zero or more; when it is zero nothing
\* is appended for the packet, the output timestamp and the samples emitted
\* stay as they are, and do_decode steps to the next packet without an error.
C18_NothingLeftContinues ==
    [][/\ (InPacketLoop /\ pc[2] = "apply_edit" /\ samples > 0) => samples' >= 0
       /\ (InPacketLoop /\ pc[2] = "mux_pcm_samples" /\ samples = 0) =>
             /\ timestamp' = timestamp
             /\ emitted' = emitted
             /\ ret' = 0
             /\ pc'[1] = "do_decode"
             /\ packet_number' = packet_number + 1
             /\ UNCHANGED <<exit_code, out_edits, decoded>>]_vars

\* A packet decoded for the pre-roll only: the whole frame is before
\* start_time and nothing of it is left.
C18_Witness ==
    /\ InPacketLoop
    /\ pc[2] = "mux_pcm_samples"
    /\ samples = 0
    /\ Cts(packet) + timeline[packet] <= presentation.start_time

\* C19: when there is no sample at packet_number, in either recovery state,
\* get_input_packet returns 1: nothing is decoded or appended, the packet loop
\* of the edit ends, do_decode goes on with the next edit, and do_decode never
\* returns that 1 to main.
C19_EndOfTrackEndsEdit ==
    /\ [][(InPacketLoop /\ pc[2] = "get_input_packet" /\ ~SampleExists(packet_number)) =>
             /\ ret' = 1
             /\ pc' = <<"do_decode", "edit_loop">>
             /\ edit_number' = edit_number + 1
             /\ UNCHANGED <<decoded, packet, timestamp, emitted, codec_misuse, exit_code,
                            out_edits, presentation>>]_vars
    /\ [](prog = "dec" /\ pc = <<"main", "do_decode">> => ret # 1)

\* Every packet is before the start_time of the first of two edits: the scan
\* has run off the end of the track and the second edit is still to come.
C19_Witness ==
    /\ prog = "dec" /\ pc = <<"do_decode", "edit_loop">>
    /\ ret = 1
    /\ presentation.status = STATUS_RECOVERY_REQUIRED
    /\ Len(timeline) > 0
    /\ MediaDuration <= presentation.start_time
    /\ edit_number = 2
    /\ edit_count = 2

\* do_decode has returned an error to main.
DecodeAborted == prog = "dec" /\ pc = <<"main", "do_decode">> /\ ret < 0

\* C20: a failed fetch of the metadata or the data of an existing sample makes
\* do_decode return the error at once, whatever edits are left: the packet
\* loop never goes on with a negative ret, and after the return main only
\* tears down and exits with -1; nothing more is fetched, decoded or written.
C20_FetchFailureAborts ==
    /\ [](InPacketLoop => ret >= 0)
    /\ [][(InPacketLoop /\ pc[2] = "get_input_packet" /\ ret' < 0) =>
             /\ SampleExists(packet_number)
             /\ ret' = -1
             /\ pc' = <<"main", "do_decode">>
             /\ UNCHANGED <<packet, timestamp, out_edits, codec_misuse>>]_vars
    /\ [][DecodeAborted =>
             /\ pc' = <<"returned", "main">>
             /\ exit_code' = -1
             /\ UNCHANGED <<packet, timestamp, out_edits, codec_misuse, decoded>>]_vars
    /\ [][(prog = "dec" /\ pc = <<"returned", "main">>) => UNCHANGED vars]_vars

\* The fetch failed in the first of two edits: main has exited with -1 and
\* the second edit was never written.
C20_Witness ==
    /\ FatalError
    /\ prog = "dec"
    /\ edit_count = 2
    /\ out_edits = 1
    /\ timeline # << >>

\* do_decode is at the head of its edit loop.
AtEditLoop == prog = "dec" /\ pc = <<"do_decode", "edit_loop">>

\* C21: an edit read with start_time -1 is written to the output as it was
\* read (start_time, duration and rate), and the step fetches no packet,
\* decodes and appends nothing and leaves the output timestamp alone; every
\* other edit read is written with start_time 0 and becomes the presentation.
C21_EmptyEditPassedThrough ==
    [][(AtEditLoop /\ out_edits' # out_edits) =>
          /\ out_edits' = out_edits + 1
          /\ IF out_edit'.start_time = -1
             THEN /\ out_edit' \in edits
                  /\ AtEditLoop'
                  /\ edit_number' = edit_number + 1
                  /\ UNCHANGED <<packet, packet_number, decoded, samples, emitted,
                                 timestamp, presentation, buffer_offset, codec_misuse>>
             ELSE /\ out_edit'.start_time = 0
                  /\ presentation'.start_time # -1
                  /\ \E edit \in edits :
                        /\ edit.start_time = presentation'.start_time
                        /\ edit.rate = out_edit'.rate
                        /\ edit.duration # 0 => edit.duration = out_edit'.duration
                  /\ timestamp' = timestamp]_vars

\* An empty edit written after an edit that appended samples.
C21_Witness ==
    /\ AtEditLoop
    /\ out_edits = 2
    /\ out_edit.start_time = -1
    /\ timestamp > 0

\* C22 (as claimed): an edit read with duration 0 gets, before its packet loop
\* is entered, the media duration scaled to the movie timescale
\* (media duration x timescale / 48000) both as the duration the packet loop
\* runs to and as the duration of the edit written; an edit with a duration
\* keeps it; the packet loop never changes the duration.
C22_ZeroDurationIsMediaDuration ==
    [][/\ (AtEditLoop /\ out_edits' = out_edits + 1 /\ out_edit'.start_time # -1) =>
             \E edit \in edits :
                LET scaled == (MediaDuration * timescale) \div MediaRate
                    duration == IF edit.duration = 0 THEN scaled ELSE edit.duration
                IN  /\ edit.start_time = presentation'.start_time
                    /\ presentation'.duration = duration
                    /\ out_edit'.duration = duration
       /\ (InPacketLoop /\ InPacketLoop') =>
             presentation'.duration = presentation.duration]_vars

\* What is left of the packet loop of the current edit: the packets the scan
\* has not passed yet while the presentation is in STATUS_RECOVERY_REQUIRED,
\* and afterwards the steps to the end of the track.
PacketLoopRank ==
    LET left == Len(timeline) + 1 - packet_number
        stage == CASE pc[2] = "get_input_packet" -> 3
                   [] pc[2] = "decode" -> 2
                   [] pc[2] = "apply_edit" -> 1
                   [] pc[2] = "mux_pcm_samples" -> 0
    IN  IF presentation.status = STATUS_RECOVERY_REQUIRED
        THEN 4 * Len(timeline) + 4 + left
        ELSE 4 * left + stage

\* What is left of do_decode: the edits to come, each with a whole packet
\* loop, and the rest of the packet loop of the current edit.
DecodeRank ==
    LET whole == 5 * Len(timeline) + 8
    IN  IF prog = "dec" /\ pc[1] = "do_decode"
        THEN (edit_count + 1 - edit_number) * whole
                + (IF InPacketLoop THEN PacketLoopRank ELSE whole - 1)
        ELSE 0

\* C23: do_decode terminates on every track and edit list.  Every step it
\* takes makes DecodeRank smaller and DecodeRank never is negative: the scan
\* only moves forward to the end of the track, the rewind happens once per
\* edit, and afterwards every turn of the packet loop moves one packet on,
\* whether or not the frame added to the presentation timestamp.  Hence a
\* decode session that has been started returns.
C23_DecodeTerminates ==
    /\ [](DecodeRank >= 0)
    /\ [][(prog = "dec" /\ pc[1] = "do_decode") => DecodeRank' < DecodeRank]_vars
    /\ (prog = "dec" /\ pc = <<"call", "do_decode">>)
          ~> (prog = "dec" /\ pc = <<"main", "do_decode">>)

\* The scan found packet 5 and rewound to packet 1, whose frame lies before
\* start_time and added nothing to the presentation timestamp.
C23_Witness ==
    /\ InPacketLoop
    /\ pc[2] = "get_input_packet"
    /\ presentation.status = STATUS_RECOVERY_STARTED
    /\ found[1] = 5
    /\ decoded = <<1>>
    /\ packet_number = 2
    /\ presentation.timestamp = 0

\* C24 (as claimed): the timestamps of the samples mp4opusenc appends to the
\* output, those of the end of input and of the flush included, are strictly
\* increasing.
C24_TimestampsStrictlyIncrease ==
    prog = "enc" =>
        \A i \in 1..(Len(appended) - 1) : appended[i] < appended[i + 1]

\* The channel mapping mp4opusenc creates the encoder with for a stream of chs
\* channels whose layout is the bitmap of its table.
EncoderMapping(chs) ==
    enc_remap_channel_layout(BitmapLayout(chs), OpusParam(chs, MediaRate),
                             [defined |-> FALSE, bytes |-> Pad8(<< >>)]).channel_mapping

\* C25 (as claimed): for every channel count 1 to 8, when mp4opusdec reads the
\* Opus specific info as mp4opusenc writes it for that count, the channel
\* mapping it creates the decoder with equals, for every channel of the
\* stream, the mapping mp4opusenc created the encoder with.
C25_DecoderMappingIsEncoderMapping ==
    (prog = "dec" /\ channel_mapping.defined) =>
        /\ param = EncodedParam(channels, MediaRate, 0)
        /\ \A i \in 1..channels :
              channel_mapping.bytes[i] = EncoderMapping(channels).bytes[i]

\* mp4opusenc has encoded N >= 1 samples and written the edit, and every frame
\* handed to the codec came back as a packet that was appended.
EncodedAndMapped ==
    /\ prog = "enc"
    /\ out_edits = 1
    /\ num_samples >= 1
    /\ appended # << >>
    /\ Len(appended) = Len(frames)

\* The end of the encoded media: the timestamp of the packet appended last plus
\* one sample_duration.
EncodedMediaEnd == appended[Len(appended)] + sample_duration

RECURSIVE SamplesBefore(_)
SamplesBefore(i) == IF i <= 1 THEN 0 ELSE SamplesBefore(i - 1) + appended[i - 1][2]

\* C27: the output media timestamp of a decode session is the number of PCM
\* samples appended so far over all edits: every appended sample carries the
\* sum of the lengths of the samples appended before it, the timestamp never
\* decreases, and it changes only in the step that appends a sample, neither at
\* the start of an edit nor for a packet that emits nothing.
C27_TimestampIsSamplesAppended ==
    /\ [](prog = "dec" =>
            /\ timestamp = SamplesBefore(Len(appended) + 1)
            /\ \A i \in 1..Len(appended) : /\ appended[i][1] = SamplesBefore(i)
                                           /\ appended[i][2] > 0)
    /\ [][prog = "dec" =>
            /\ timestamp' >= timestamp
            /\ (pc # <<"do_decode", "mux_pcm_samples">> \/ samples <= 0)
                  => (timestamp' = timestamp /\ appended' = appended)]_vars

\* A second edit that has appended one sample, with another of its packets
\* emitting nothing, after the first edit appended samples.
C27_Witness ==
    /\ prog = "dec"
    /\ edit_number = 2
    /\ Len(decoded) >= 3
    /\ emitted > 0
    /\ Len(appended) >= 2
    /\ appended[Len(appended)][1] = timestamp - emitted
    /\ timestamp > emitted

\* C28: for a decoded frame of n samples, 0 < n <= 5760, the trimming step
\* leaves a leading skip p with 0 <= p <= n and an emitted count e <= n - p, so
\* that for e > 0 the bytes copied to the output, e x channels x 2 of them from
\* buffer_offset = p x channels x 2, lie inside the n x channels x 2 bytes of
\* the decoded frame and inside the sample buffer.
C28_CopiedRegionInsideFrame ==
    [][(prog = "dec" /\ pc = <<"do_decode", "apply_edit">>
            /\ samples > 0 /\ samples <= MAX_OPUS_PACKET_DURATION) =>
          LET n == samples
              e == samples'
              p == buffer_offset' \div (channels * 2)
          IN  /\ buffer_offset' = p * channels * 2
              /\ p >= 0 /\ p <= n
              /\ e <= n - p
              /\ e > 0 => /\ buffer_offset' + e * channels * 2 <= n * channels * 2
                          /\ buffer_offset' + e * channels * 2
                                <= MAX_OPUS_PACKET_DURATION * channels * 2]_vars

\* A frame trimmed at both ends: the edit starts and ends inside it.
C28_Witness ==
    /\ prog = "dec" /\ pc = <<"do_decode", "mux_pcm_samples">>
    /\ buffer_offset > 0
    /\ samples > 0
    /\ buffer_offset + samples * channels * 2 < timeline[packet] * channels * 2

\* The packet loop of do_decode past get_input_packet, with a fetched packet.
DecPacketInHand ==
    prog = "dec" /\ pc \in {<<"do_decode", "decode">>, <<"do_decode", "apply_edit">>,
                            <<"do_decode", "mux_pcm_samples">>}

\* The loop of do_encode past get_input_packet, with a fetched packet.
EncPacketInHand == prog = "enc" /\ pc = <<"do_encode", "feed">> /\ eof = 0

\* C29: in the encode and in the decode loop at most one input packet is held
\* at a time: a fetched packet is held while it is processed, and it has been
\* released, once, whenever the loop is about to fetch the next packet and
\* whenever the loop has returned, with success or with an error.
C29_OnePacketHeldThenReleased ==
    /\ held \in {0, 1}
    /\ held = 1 <=> (DecPacketInHand \/ EncPacketInHand)
    /\ DecPacketInHand => packet # 0
    /\ (prog = "dec" /\ ~DecPacketInHand) => packet = 0

\* The decode loop has returned an error after packets were fetched, decoded
\* and appended, or the encode loop has returned after a packet was fetched.
C29_Witness ==
    /\ held = 0
    /\ \/ DecodeAborted /\ Len(appended) >= 1
       \/ /\ prog = "enc" /\ pc = <<"main", "do_encode">>
          /\ num_samples > 0

\* The table entry remap_channel_layout selects for the input: the entry the
\* container layout matches, else the entry of the channel count for mono and
\* stereo, else none (0).
SelectedEntry ==
    IF LayoutIndex(layout) # 0 THEN LayoutIndex(layout)
    ELSE IF channels < 3 THEN channels
    ELSE 0

\* C30: whenever the layout lookup of the encoder selects a table entry, by
\* bitmap, by tag or by the mono/stereo default, the channel count of the entry
\* is the channel count of the stream the encoder is created for, and the
\* mapping handed to the codec is a permutation of [0, channel count).
C30_SelectedEntryHasStreamChannelCount ==
    (EncoderPrepared /\ SelectedEntry # 0) =>
        /\ SelectedEntry = channels
        /\ param.OutputChannelCount = channels
        /\ channel_mapping.defined
        /\ IsBijection(channel_mapping.bytes, channels)

====
